---- MODULE Spec2Model ----
(***************************************************************************)
(* Deep-planning session state machine (src/planning.ts) together with the *)
(* JSONL event log of the persistence layer (src/unnamed/part_007).        *)
(*                                                                         *)
(* Representation choices:                                                 *)
(*  - a JavaScript `undefined` string is the sentinel `undefined`; an      *)
(*    absent numeric input is NoNumber;                                    *)
(*  - Date.now() / new Date() read the variable `now`, which every call    *)
(*    may find advanced by 0 or 1 millisecond;                             *)
(*  - a message is the record Msg(kind, a, b, n, m, list) holding the      *)
(*    template that was used and the values interpolated into it;          *)
(*  - weightedScore is kept in hundredths (7.8 is 780).                    *)
(***************************************************************************)
EXTENDS Integers, Sequences, FiniteSets, TLC

VARIABLES
  session,   \* DeepPlanningServer.session: NULL or a PlanningSession
  now,       \* the system clock in milliseconds
  logs,      \* plans directory: session id -> lines of {sessionId}.jsonl
  req,       \* the input of the last processPlanningStep call
  result,    \* what the last processPlanningStep call returned
  appends,   \* the appendEvent calls started so far, each with its position
  disk,      \* the plans directory: PersistenceManager.dirCreated, writability
  ifs,       \* the index file, its temporary file and the plan files on disk
  ops,       \* the updateIndex calls started so far, each with its position
  seen       \* what the last query of the persistence manager came to

vars == <<session, now, logs, req, result, appends, disk, ifs, ops, seen>>

\* what only the persistence manager's own steps touch
pmvars == <<appends, disk, ifs, ops, seen>>

\* ---------------------------------------------------------------- bounds
\* the readings of the millisecond clock during a run
Instants == 0..1
\* the number of lines the event logs hold together
MaxEvents == 5

\* ---------------------------------------------------------------- values
undefined == "<undefined>"
NoNumber == -1
NULL == [null |-> TRUE]

Range(f) == {f[i] : i \in DOMAIN f}

SeqMap(Op(_), s) == [i \in DOMAIN s |-> Op(s[i])]

Msg(kind, a, b, n, m, list) ==
  [kind |-> kind, a |-> a, b |-> b, n |-> n, m |-> m, list |-> list]

NoMsg == Msg("null", "", "", 0, 0, <<>>)

\* A plans directory with nothing in it: no index file (inode 0 is "no
\* file"), no temporary file, no plan files.
EmptyDisk == [dir |-> "ok", index |-> 0, tmp |-> 0, inodes |-> <<>>, plans |-> <<>>]

NothingSeen == [op |-> "", args |-> <<>>, out |-> [rejected |-> FALSE, value |-> NULL]]

\* ------------------------------------------------------------- constants
VALID_PHASES == <<"init", "clarify", "explore", "evaluate", "finalize">>

\* Faulty variant: a finished session accepts clarify again.
VALID_TRANSITIONS_DoneReopens(phase) ==
  CASE phase = "" -> <<"init">>
    [] phase = "init" -> <<"clarify", "explore">>
    [] phase = "clarify" -> <<"clarify", "explore">>
    [] phase = "explore" -> <<"explore", "evaluate", "clarify">>
    [] phase = "evaluate" -> <<"evaluate", "explore", "finalize">>
    [] phase = "finalize" -> <<>>
    [] phase = "done" -> <<"init", "clarify">>
    [] OTHER -> <<>>

\* Faulty variant: finalize is allowed straight from explore.
VALID_TRANSITIONS_FinalizeFromExplore(phase) ==
  CASE phase = "" -> <<"init">>
    [] phase = "init" -> <<"clarify", "explore">>
    [] phase = "clarify" -> <<"clarify", "explore">>
    [] phase = "explore" -> <<"explore", "evaluate", "clarify", "finalize">>
    [] phase = "evaluate" -> <<"evaluate", "explore", "finalize">>
    [] phase = "finalize" -> <<>>
    [] phase = "done" -> <<"init">>
    [] OTHER -> <<>>

\* Faulty variant: evaluate does not lead to finalize.
VALID_TRANSITIONS_NoWayToFinalize(phase) ==
  CASE phase = "" -> <<"init">>
    [] phase = "init" -> <<"clarify", "explore">>
    [] phase = "clarify" -> <<"clarify", "explore">>
    [] phase = "explore" -> <<"explore", "evaluate", "clarify">>
    [] phase = "evaluate" -> <<"evaluate", "explore">>
    [] phase = "finalize" -> <<>>
    [] phase = "done" -> <<"init">>
    [] OTHER -> <<>>

VALID_TRANSITIONS(phase) ==
  CASE phase = "" -> <<"init">>
    [] phase = "init" -> <<"clarify", "explore">>
    [] phase = "clarify" -> <<"clarify", "explore">>
    [] phase = "explore" -> <<"explore", "evaluate", "clarify">>
    [] phase = "evaluate" -> <<"evaluate", "explore", "finalize">>
    [] phase = "finalize" -> <<>>
    [] phase = "done" -> <<"init">>
    [] OTHER -> <<>>

VALID_RECOMMENDATIONS == <<"pursue", "refine", "abandon">>

\* SCORE_WEIGHTS in hundredths
WeightFeasibility == 30
WeightCompleteness == 25
WeightCoherence == 25
WeightRisk == 20
DefaultScore == 5

\* ------------------------------------------------------------ JSON values
JUndef == [t |-> "undefined"]
JStr(s) == [t |-> "string", s |-> s]
JNum(s) == [t |-> "number", s |-> s]
JArr(items) == [t |-> "array", items |-> items]
JObj(f) == [t |-> "object", f |-> f]

\* The JSON-encoded strings callers send in this model.
TxtBad == "not valid json"
TxtBraces == "{not an array}"
TxtString == "\"just a string\""
TxtEmpty == "[]"
TxtStrings == "[\"x\"]"
TxtNumbers == "[7]"
TxtSteps == "[{\"action\":\"Deploy\",\"detail\":\"Push to prod\",\"complexity\":\"low\"}]"
TxtStepsNum == "[{\"title\":5,\"action\":\"Deploy\"}]"
TxtRisks == "[{\"description\":\"r\",\"mitigation\":\"m\"}]"
TxtObject == "{\"description\":\"r\"}"

\* JSON.parse on those strings: ok = FALSE is a SyntaxError.
JSON_parse(text) ==
  CASE text = TxtEmpty -> [ok |-> TRUE, value |-> JArr(<<>>)]
    [] text = TxtStrings -> [ok |-> TRUE, value |-> JArr(<<JStr("x")>>)]
    [] text = TxtNumbers -> [ok |-> TRUE, value |-> JArr(<<JNum("7")>>)]
    [] text = TxtString -> [ok |-> TRUE, value |-> JStr("just a string")]
    [] text = TxtSteps ->
         [ok |-> TRUE,
          value |-> JArr(<<JObj([action |-> JStr("Deploy"),
                                 detail |-> JStr("Push to prod"),
                                 complexity |-> JStr("low")])>>)]
    [] text = TxtStepsNum ->
         [ok |-> TRUE,
          value |-> JArr(<<JObj([title |-> JNum("5"), action |-> JStr("Deploy")])>>)]
    [] text = TxtRisks ->
         [ok |-> TRUE,
          value |-> JArr(<<JObj([description |-> JStr("r"), mitigation |-> JStr("m")])>>)]
    [] text = TxtObject ->
         [ok |-> TRUE, value |-> JObj([description |-> JStr("r")])]
    [] OTHER -> [ok |-> FALSE, value |-> JUndef]

\* String(x)
JsString(v) ==
  CASE v.t = "string" -> v.s
    [] v.t = "number" -> v.s
    [] v.t = "object" -> "[object Object]"
    [] OTHER -> v.t

\* !value for a string | undefined
Falsy(value) == value = undefined \/ value = ""

\* ---------------------------------------------------------------- helpers
Parsed(items) == [thrown |-> NoMsg, value |-> items]
Thrown(msg) == [thrown |-> msg, value |-> <<>>]

parseJsonArray(value, fieldName) ==
  IF Falsy(value) THEN Parsed(<<>>)
  ELSE LET parsed == JSON_parse(value) IN
       IF ~parsed.ok
         THEN Thrown(Msg("InvalidJson", fieldName, "", 0, 0, <<>>))
       ELSE IF parsed.value.t # "array"
         THEN Thrown(Msg("MustBeJsonArray", fieldName, "", 0, 0, <<>>))
       ELSE Parsed(parsed.value.items)

parseJsonStringArray(value, fieldName) ==
  LET r == parseJsonArray(value, fieldName) IN
  IF r.thrown # NoMsg THEN r ELSE Parsed(SeqMap(JsString, r.value))

\* raw.k
Field(raw, k) == IF raw.t = "object" /\ k \in DOMAIN raw.f THEN raw.f[k] ELSE JUndef

\* value == null: null or undefined
Nullish(v) == v.t \in {"undefined", "null"}

\* a ?? b ?? c ?? d: the first operand that is neither null nor undefined,
\* or else the last one
Coalesce(vs) ==
  IF \E i \in DOMAIN vs : ~Nullish(vs[i])
    THEN vs[CHOOSE i \in DOMAIN vs :
              ~Nullish(vs[i]) /\ \A j \in 1..(i - 1) : Nullish(vs[j])]
    ELSE vs[Len(vs)]

\* the truthiness test of `raw.k ? {...} : {}`
Truthy(v) ==
  /\ v.t # "undefined"
  /\ ~(v.t = "string" /\ v.s = "")
  /\ ~(v.t = "number" /\ v.s = "0")

Optional(raw, k) == IF Truthy(Field(raw, k)) THEN {k} ELSE {}

normalizePlanStep(raw, index) ==
  LET rawTitle == Coalesce(<<Field(raw, "title"), Field(raw, "action"),
                             Field(raw, "name"), Field(raw, "step")>>)
      rawDescription == Coalesce(<<Field(raw, "description"), Field(raw, "detail"),
                                   Field(raw, "details"), Field(raw, "info")>>)
      extra == Optional(raw, "files") \cup Optional(raw, "dependencies")
                 \cup Optional(raw, "complexity")
  IN [k \in {"title", "description"} \cup extra |->
        CASE k = "title" ->
               IF rawTitle.t = "string" THEN rawTitle
               ELSE JStr("Step " \o ToString(index + 1))
          [] k = "description" ->
               IF rawDescription.t = "string" THEN rawDescription ELSE JStr("")
          [] OTHER -> Field(raw, k)]

NormalizeSteps(rawSteps) == [i \in DOMAIN rawSteps |-> normalizePlanStep(rawSteps[i], i - 1)]

\* Math.round(raw * 100) / 100, in hundredths
\* Faulty variant: risk counts for the approach instead of against it.
calculateWeightedScore_RiskNotInverted(scores) ==
  scores.feasibility * WeightFeasibility
    + scores.completeness * WeightCompleteness
    + scores.coherence * WeightCoherence
    + scores.risk * WeightRisk

\* The score in hundredths: Math.round(raw * 100), which the function
\* divides by 100.
calculateWeightedScore(scores) ==
  scores.feasibility * WeightFeasibility
    + scores.completeness * WeightCompleteness
    + scores.coherence * WeightCoherence
    + (10 - scores.risk) * WeightRisk

\* ------------------------------------------------------------- the server
Find(list, branchId) == {i \in DOMAIN list : list[i].branchId = branchId}

BranchIds(list) == [i \in DOMAIN list |-> list[i].branchId]

\* Faulty variant: init, which is always accepted, is listed every time.
getValidNextPhases_ListsInit(s) ==
  IF s = NULL \/ s.phase = "done" THEN <<"init">>
  ELSE VALID_TRANSITIONS(s.phase) \o <<"init">>

getValidNextPhases(s) ==
  VALID_TRANSITIONS(IF s = NULL THEN "" ELSE s.phase)

makeOutput(s, status, message, plan) ==
  [sessionId |-> IF s = NULL THEN "" ELSE s.sessionId,
   phase |-> IF s = NULL THEN "" ELSE s.phase,
   status |-> status,
   approachCount |-> IF s = NULL THEN 0 ELSE Len(s.approaches),
   evaluationCount |-> IF s = NULL THEN 0 ELSE Len(s.evaluations),
   validNextPhases |-> getValidNextPhases(s),
   message |-> message,
   plan |-> plan]

NoPlan == <<>>

\* Faulty variant: the requested phase is not looked up in the table.
validateTransition_NoTableCheck(s, requestedPhase) ==
  IF requestedPhase \notin Range(VALID_PHASES)
    THEN Msg("InvalidPhase", requestedPhase, "", 0, 0, VALID_PHASES)
  ELSE IF requestedPhase # "init" /\ s = NULL
    THEN Msg("NoActiveSession", "", "", 0, 0, <<>>)
  ELSE NoMsg

\* Faulty variant: init is refused while a session is under way.
validateTransition_InitNeedsNoSession(s, requestedPhase) ==
  IF requestedPhase \notin Range(VALID_PHASES)
    THEN Msg("InvalidPhase", requestedPhase, "", 0, 0, VALID_PHASES)
  ELSE IF requestedPhase # "init" /\ s = NULL
    THEN Msg("NoActiveSession", "", "", 0, 0, <<>>)
  ELSE IF requestedPhase \notin Range(getValidNextPhases(s))
    THEN Msg("CannotTransition", IF s = NULL THEN "(none)" ELSE s.phase,
             requestedPhase, 0, 0, getValidNextPhases(s))
  ELSE NoMsg

validateTransition(s, requestedPhase) ==
  IF requestedPhase \notin Range(VALID_PHASES)
    THEN Msg("InvalidPhase", requestedPhase, "", 0, 0, VALID_PHASES)
  ELSE IF requestedPhase # "init" /\ s = NULL
    THEN Msg("NoActiveSession", "", "", 0, 0, <<>>)
  ELSE IF requestedPhase = "init"
    THEN NoMsg
  ELSE IF requestedPhase \notin Range(getValidNextPhases(s))
    THEN Msg("CannotTransition", IF s = NULL THEN "(none)" ELSE s.phase,
             requestedPhase, 0, 0, getValidNextPhases(s))
  ELSE NoMsg

\* What a handler leaves behind: the session, and the output it returned or
\* the error it threw.
Return(s, output) == [session |-> s, output |-> output, thrown |-> NoMsg]
Throw(s, msg) == [session |-> s, output |-> makeOutput(NULL, "", NoMsg, NoPlan), thrown |-> msg]

Digits36 == <<"0", "1", "2", "3", "4", "5", "6", "7", "8", "9", "a", "b", "c",
              "d", "e", "f", "g", "h", "i", "j", "k", "l", "m", "n", "o", "p",
              "q", "r", "s", "t", "u", "v", "w", "x", "y", "z">>

RECURSIVE ToBase36(_)
\* Number.prototype.toString(36)
ToBase36(n) ==
  IF n < 36 THEN Digits36[n + 1]
  ELSE ToBase36(n \div 36) \o Digits36[(n % 36) + 1]

NewSessionId(t) == "dp-" \o ToBase36(t)

\* handleInit once a problem is given: parse the constraints, build the new
\* session and make it the active one.
CreateSession(s, input, t) ==
  LET sessionId == NewSessionId(t)
      constraints == parseJsonStringArray(input.constraints, "constraints")
      created == [sessionId |-> sessionId,
                  problem |-> input.problem,
                  context |-> input.context,
                  constraints |-> constraints.value,
                  phase |-> "init",
                  clarifications |-> <<>>,
                  approaches |-> <<>>,
                  evaluations |-> <<>>,
                  selectedApproach |-> undefined,
                  steps |-> <<>>,
                  risks |-> <<>>,
                  assumptions |-> <<>>,
                  successCriteria |-> <<>>,
                  createdAt |-> t,
                  updatedAt |-> t]
  IN IF constraints.thrown # NoMsg THEN Throw(s, constraints.thrown)
     ELSE Return(created, makeOutput(created, "ok",
                   Msg("SessionCreated", sessionId, "", 0, 0, <<>>), NoPlan))

\* Faulty variant: a failed init reports neutral metadata instead of the
\* session in memory.
handleInit_NeutralOnFailure(s, input, t) ==
  IF Falsy(input.problem)
    THEN Return(s, makeOutput(NULL, "error",
                              Msg("InitRequiresProblem", "", "", 0, 0, <<>>), NoPlan))
  ELSE CreateSession(s, input, t)

handleInit(s, input, t) ==
  IF Falsy(input.problem)
    THEN Return(s, makeOutput(s, "error",
                              Msg("InitRequiresProblem", "", "", 0, 0, <<>>), NoPlan))
  ELSE CreateSession(s, input, t)

\* Faulty variant: the list is assigned anew, holding the new clarification
\* alone.
handleClarify_Replaces(s, input, t) ==
  IF Falsy(input.question)
    THEN Return(s, makeOutput(s, "error",
                              Msg("ClarifyRequiresQuestion", "", "", 0, 0, <<>>), NoPlan))
  ELSE
    LET after == [s EXCEPT
                    !.clarifications =
                       <<[question |-> input.question, answer |-> input.answer]>>,
                    !.phase = "clarify",
                    !.updatedAt = t]
    IN Return(after, makeOutput(after, "ok",
                Msg("ClarificationRecorded", "", "", Len(after.clarifications), 0, <<>>),
                NoPlan))

handleClarify(s, input, t) ==
  IF Falsy(input.question)
    THEN Return(s, makeOutput(s, "error",
                              Msg("ClarifyRequiresQuestion", "", "", 0, 0, <<>>), NoPlan))
  ELSE
    LET after == [s EXCEPT
                    !.clarifications =
                       Append(@, [question |-> input.question, answer |-> input.answer]),
                    !.phase = "clarify",
                    !.updatedAt = t]
    IN Return(after, makeOutput(after, "ok",
                Msg("ClarificationRecorded", "", "", Len(after.clarifications), 0, <<>>),
                NoPlan))

\* handleExplore once its checks have passed: parse pros and cons, push the
\* approach, move to explore.
RecordApproach(s, input, t) ==
  LET pros == parseJsonStringArray(input.pros, "pros")
      cons == parseJsonStringArray(input.cons, "cons")
      after == [s EXCEPT
                  !.approaches =
                     Append(@, [branchId |-> input.branchId,
                                name |-> input.name,
                                description |-> IF input.description = undefined
                                                  THEN "" ELSE input.description,
                                pros |-> pros.value,
                                cons |-> cons.value]),
                  !.phase = "explore",
                  !.updatedAt = t]
  IN IF pros.thrown # NoMsg THEN Throw(s, pros.thrown)
     ELSE IF cons.thrown # NoMsg THEN Throw(s, cons.thrown)
     ELSE Return(after, makeOutput(after, "ok",
                   Msg("ApproachRecorded", input.name, "", Len(after.approaches), 0, <<>>),
                   NoPlan))

\* Faulty variant: the duplicate-branchId check is missing.
handleExplore_NoDuplicateCheck(s, input, t) ==
  IF Falsy(input.branchId) \/ Falsy(input.name)
    THEN Return(s, makeOutput(s, "error",
                              Msg("ExploreRequiresFields", "", "", 0, 0, <<>>), NoPlan))
  ELSE RecordApproach(s, input, t)

handleExplore(s, input, t) ==
  IF Falsy(input.branchId) \/ Falsy(input.name)
    THEN Return(s, makeOutput(s, "error",
                              Msg("ExploreRequiresFields", "", "", 0, 0, <<>>), NoPlan))
  ELSE IF Find(s.approaches, input.branchId) # {}
    THEN Return(s, makeOutput(s, "error",
                  Msg("ApproachAlreadyExists", input.branchId, "", 0, 0, <<>>), NoPlan))
  ELSE RecordApproach(s, input, t)

\* Faulty variant: || in place of ??, so a score of 0 is taken as absent.
OrDefault_ZeroIsAbsent(x) == IF x = NoNumber \/ x = 0 THEN DefaultScore ELSE x

\* input.x ?? 5
OrDefault(x) == IF x = NoNumber THEN DefaultScore ELSE x

\* handleEvaluate once its checks have passed: default the scores, validate
\* the recommendation, push the evaluation, move to evaluate.
RecordEvaluation(s, input, t) ==
  LET approach == s.approaches[CHOOSE i \in Find(s.approaches, input.branchId) :
                                 \A j \in Find(s.approaches, input.branchId) : i <= j]
      scores == [feasibility |-> OrDefault(input.feasibility),
                 completeness |-> OrDefault(input.completeness),
                 coherence |-> OrDefault(input.coherence),
                 risk |-> OrDefault(input.risk)]
      recommendation == IF input.recommendation = undefined
                          THEN "refine" ELSE input.recommendation
      weightedScore == calculateWeightedScore(scores)
      after == [s EXCEPT
                  !.evaluations =
                     Append(@, [branchId |-> input.branchId,
                                scores |-> scores,
                                weightedScore |-> weightedScore,
                                rationale |-> IF input.rationale = undefined
                                                THEN "" ELSE input.rationale,
                                recommendation |-> recommendation]),
                  !.phase = "evaluate",
                  !.updatedAt = t]
  IN IF recommendation \notin Range(VALID_RECOMMENDATIONS)
       THEN Return(s, makeOutput(s, "error",
                     Msg("InvalidRecommendation", recommendation, "", 0, 0,
                         VALID_RECOMMENDATIONS), NoPlan))
     ELSE Return(after, makeOutput(after, "ok",
                   Msg("EvaluationRecorded", approach.name, "", Len(after.evaluations),
                       weightedScore, <<>>), NoPlan))

\* Faulty variant: the check for an existing evaluation is missing.
handleEvaluate_NoDuplicateCheck(s, input, t) ==
  IF Falsy(input.branchId)
    THEN Return(s, makeOutput(s, "error",
                              Msg("EvaluateRequiresBranchId", "", "", 0, 0, <<>>), NoPlan))
  ELSE IF Find(s.approaches, input.branchId) = {}
    THEN Return(s, makeOutput(s, "error",
                  Msg("NoApproachFound", input.branchId, "", 0, 0, BranchIds(s.approaches)),
                  NoPlan))
  ELSE RecordEvaluation(s, input, t)

handleEvaluate(s, input, t) ==
  IF Falsy(input.branchId)
    THEN Return(s, makeOutput(s, "error",
                              Msg("EvaluateRequiresBranchId", "", "", 0, 0, <<>>), NoPlan))
  ELSE IF Find(s.approaches, input.branchId) = {}
    THEN Return(s, makeOutput(s, "error",
                  Msg("NoApproachFound", input.branchId, "", 0, 0, BranchIds(s.approaches)),
                  NoPlan))
  ELSE IF Find(s.evaluations, input.branchId) # {}
    THEN Return(s, makeOutput(s, "error",
                  Msg("EvaluationAlreadyExists", input.branchId, "", 0, 0, <<>>), NoPlan))
  ELSE RecordEvaluation(s, input, t)

\* ------------------------------------------------------- plan generation
RECURSIVE Join(_, _)
\* Array.prototype.join
Join(list, sep) ==
  IF list = <<>> THEN ""
  ELSE IF Len(list) = 1 THEN list[1]
  ELSE list[1] \o sep \o Join(Tail(list), sep)

RECURSIVE Flatten(_)
Flatten(lists) == IF lists = <<>> THEN <<>> ELSE Head(lists) \o Flatten(Tail(lists))

Filter(list, Keep(_)) == SelectSeq(list, Keep)

\* Number.prototype.toFixed(2) of a value held in hundredths
toFixed2(w) ==
  ToString(w \div 100) \o "." \o ToString((w % 100) \div 10) \o ToString(w % 10)

FindFirst(list, branchId) ==
  IF Find(list, branchId) = {} THEN NULL
  ELSE list[CHOOSE i \in Find(list, branchId) : \A j \in Find(list, branchId) : i <= j]

buildHeaderSection(s, selectedName) ==
  <<"# Plan: " \o selectedName, "", "## Problem", s.problem, "">>
  \o (IF Falsy(s.context) THEN <<>> ELSE <<"## Context", s.context, "">>)
  \o (IF Len(s.constraints) > 0
        THEN <<"## Constraints">> \o SeqMap(LAMBDA c : "- " \o c, s.constraints) \o <<"">>
        ELSE <<>>)
  \o (IF Len(s.clarifications) > 0
        THEN <<"## Clarifications", "", "| Question | Answer |", "|----------|--------|">>
             \o SeqMap(LAMBDA c : "| " \o c.question \o " | "
                                    \o (IF c.answer = undefined THEN "Pending" ELSE c.answer)
                                    \o " |",
                       s.clarifications)
             \o <<"">>
        ELSE <<>>)

buildSelectedApproachSection(selected, selectedEval) ==
  <<"## Selected Approach: " \o (IF selected = NULL THEN "N/A" ELSE selected.name), "">>
  \o (IF selectedEval # NULL
        THEN <<"**Score:** " \o toFixed2(selectedEval.weightedScore) \o "/10",
               "**Rationale:** " \o selectedEval.rationale,
               "**Recommendation:** " \o selectedEval.recommendation,
               "",
               "| Criterion | Score |",
               "|-----------|-------|",
               "| Feasibility | " \o ToString(selectedEval.scores.feasibility) \o "/10 |",
               "| Completeness | " \o ToString(selectedEval.scores.completeness) \o "/10 |",
               "| Coherence | " \o ToString(selectedEval.scores.coherence) \o "/10 |",
               "| Risk | " \o ToString(selectedEval.scores.risk) \o "/10 |",
               "">>
        ELSE <<>>)
  \o (IF selected # NULL /\ Len(selected.pros) > 0
        THEN <<"**Pros:**">> \o SeqMap(LAMBDA x : "- " \o x, selected.pros) \o <<"">>
        ELSE <<>>)
  \o (IF selected # NULL /\ Len(selected.cons) > 0
        THEN <<"**Cons:**">> \o SeqMap(LAMBDA x : "- " \o x, selected.cons) \o <<"">>
        ELSE <<>>)

buildRejectedSection(rejected, evaluations) ==
  IF Len(rejected) = 0 THEN <<>>
  ELSE <<"## Rejected Approaches", "">>
       \o Flatten(SeqMap(
            LAMBDA r :
              LET rEval == FindFirst(evaluations, r.branchId) IN
              <<"### " \o r.name>>
              \o (IF rEval # NULL
                    THEN <<"**Score:** " \o toFixed2(rEval.weightedScore)
                             \o "/10 | **Recommendation:** " \o rEval.recommendation,
                           "**Rationale:** " \o rEval.rationale>>
                    ELSE <<>>)
              \o <<"">>,
            rejected))

StepList(step, k) ==
  IF k \in DOMAIN step /\ step[k].t = "array" THEN SeqMap(JsString, step[k].items) ELSE <<>>

buildStepsSection(steps) ==
  IF Len(steps) = 0 THEN <<>>
  ELSE <<"## Implementation Steps", "">>
       \o Flatten([i \in DOMAIN steps |->
            <<"### Step " \o ToString(i) \o ": " \o steps[i].title.s,
              steps[i].description.s>>
            \o (IF Len(StepList(steps[i], "files")) > 0
                  THEN <<"- **Files:** " \o Join(StepList(steps[i], "files"), ", ")>>
                  ELSE <<>>)
            \o (IF Len(StepList(steps[i], "dependencies")) > 0
                  THEN <<"- **Depends on:** Step "
                           \o Join(StepList(steps[i], "dependencies"), ", Step ")>>
                  ELSE <<>>)
            \o (IF "complexity" \in DOMAIN steps[i]
                  THEN <<"- **Complexity:** " \o JsString(steps[i].complexity)>>
                  ELSE <<>>)
            \o <<"">>])

buildFooterSection(s) ==
  (IF Len(s.risks) > 0
     THEN <<"## Risks", "", "| Risk | Mitigation |", "|------|------------|">>
          \o SeqMap(LAMBDA r : "| " \o JsString(Field(r, "description")) \o " | "
                                 \o JsString(Field(r, "mitigation")) \o " |",
                    s.risks)
          \o <<"">>
     ELSE <<>>)
  \o (IF Len(s.assumptions) > 0
        THEN <<"## Assumptions">> \o SeqMap(LAMBDA a : "- " \o a, s.assumptions) \o <<"">>
        ELSE <<>>)
  \o (IF Len(s.successCriteria) > 0
        THEN <<"## Success Criteria">>
             \o SeqMap(LAMBDA c : "- [ ] " \o c, s.successCriteria) \o <<"">>
        ELSE <<>>)

Rejected(s) == Filter(s.approaches, LAMBDA a : a.branchId # s.selectedApproach)

\* The lines that generateMarkdownPlan joins with "\n".
generateMarkdownPlan(s) ==
  LET selected == FindFirst(s.approaches, s.selectedApproach)
      selectedEval == FindFirst(s.evaluations, s.selectedApproach)
  IN buildHeaderSection(s, IF selected = NULL THEN "Untitled" ELSE selected.name)
     \o buildSelectedApproachSection(selected, selectedEval)
     \o buildRejectedSection(Rejected(s), s.evaluations)
     \o buildStepsSection(s.steps)
     \o buildFooterSection(s)

\* The object generateJsonPlan serialises, as its "key: value" lines; a score
\* that is undefined is left out by JSON.stringify.
generateJsonPlan(s) ==
  LET selected == FindFirst(s.approaches, s.selectedApproach)
      selectedEval == FindFirst(s.evaluations, s.selectedApproach)
  IN <<"title: " \o (IF selected = NULL THEN "Untitled" ELSE selected.name),
       "problem: " \o s.problem>>
     \o (IF s.context = undefined THEN <<>> ELSE <<"context: " \o s.context>>)
     \o <<"constraints: " \o Join(s.constraints, ","),
          "clarifications: " \o Join(SeqMap(LAMBDA c : c.question, s.clarifications), ","),
          "selectedApproach.branchId: " \o s.selectedApproach>>
     \o (IF selected = NULL THEN <<>> ELSE <<"selectedApproach.name: " \o selected.name>>)
     \o (IF selectedEval = NULL THEN <<>>
         ELSE <<"selectedApproach.score: " \o toFixed2(selectedEval.weightedScore),
                "selectedApproach.rationale: " \o selectedEval.rationale>>)
     \o <<"rejectedApproaches: " \o Join(SeqMap(LAMBDA a : a.branchId, Rejected(s)), ","),
          "steps: " \o Join(SeqMap(LAMBDA st : st.title.s, s.steps), ","),
          "risks: " \o Join(SeqMap(LAMBDA r : JsString(Field(r, "description")), s.risks), ","),
          "assumptions: " \o Join(s.assumptions, ","),
          "successCriteria: " \o Join(s.successCriteria, ",")>>

\* handleFinalize once the selected branch is known to exist: the fields are
\* assigned one after the other, each after its own parse.
SealSession(s, input, t) ==
  LET approach == FindFirst(s.approaches, input.selectedBranch)
      s1 == [s EXCEPT !.selectedApproach = input.selectedBranch]
      rawSteps == parseJsonArray(input.steps, "steps")
      s2 == [s1 EXCEPT !.steps = NormalizeSteps(rawSteps.value)]
      risks == parseJsonArray(input.risks, "risks")
      s3 == [s2 EXCEPT !.risks = risks.value]
      assumptions == parseJsonStringArray(input.assumptions, "assumptions")
      s4 == [s3 EXCEPT !.assumptions = assumptions.value]
      successCriteria == parseJsonStringArray(input.successCriteria, "successCriteria")
      s5 == [s4 EXCEPT !.successCriteria = successCriteria.value,
                       !.phase = "done",
                       !.updatedAt = t]
      format == IF input.format = undefined THEN "markdown" ELSE input.format
      plan == IF format = "json" THEN generateJsonPlan(s5) ELSE generateMarkdownPlan(s5)
  IN IF rawSteps.thrown # NoMsg THEN Throw(s1, rawSteps.thrown)
     ELSE IF risks.thrown # NoMsg THEN Throw(s2, risks.thrown)
     ELSE IF assumptions.thrown # NoMsg THEN Throw(s3, assumptions.thrown)
     ELSE IF successCriteria.thrown # NoMsg THEN Throw(s4, successCriteria.thrown)
     ELSE Return(s5, makeOutput(s5, "complete",
                   Msg("PlanFinalized", approach.name, "", 0, 0, <<>>), plan))

\* Faulty variant: the selected branch must have been evaluated.
handleFinalize_NeedsEvaluation(s, input, t) ==
  IF Falsy(input.selectedBranch)
    THEN Return(s, makeOutput(s, "error",
                  Msg("FinalizeRequiresSelectedBranch", "", "", 0, 0, <<>>), NoPlan))
  ELSE IF Find(s.approaches, input.selectedBranch) = {}
            \/ Find(s.evaluations, input.selectedBranch) = {}
    THEN Return(s, makeOutput(s, "error",
                  Msg("NoApproachFound", input.selectedBranch, "", 0, 0,
                      BranchIds(s.approaches)), NoPlan))
  ELSE SealSession(s, input, t)

\* Faulty variant: the session is left in the phase that was requested.
handleFinalize_StaysInFinalize(s, input, t) ==
  IF Falsy(input.selectedBranch)
    THEN Return(s, makeOutput(s, "error",
                  Msg("FinalizeRequiresSelectedBranch", "", "", 0, 0, <<>>), NoPlan))
  ELSE IF Find(s.approaches, input.selectedBranch) = {}
    THEN Return(s, makeOutput(s, "error",
                  Msg("NoApproachFound", input.selectedBranch, "", 0, 0,
                      BranchIds(s.approaches)), NoPlan))
  ELSE IF SealSession(s, input, t).thrown # NoMsg THEN SealSession(s, input, t)
  ELSE [SealSession(s, input, t) EXCEPT !.session.phase = "finalize"]

handleFinalize(s, input, t) ==
  IF Falsy(input.selectedBranch)
    THEN Return(s, makeOutput(s, "error",
                  Msg("FinalizeRequiresSelectedBranch", "", "", 0, 0, <<>>), NoPlan))
  ELSE IF Find(s.approaches, input.selectedBranch) = {}
    THEN Return(s, makeOutput(s, "error",
                  Msg("NoApproachFound", input.selectedBranch, "", 0, 0,
                      BranchIds(s.approaches)), NoPlan))
  ELSE SealSession(s, input, t)

\* The value processPlanningStep returns: the output it serialises into
\* content[0].text, and the isError flag.
Structured(output) ==
  [sessionId |-> output.sessionId,
   phase |-> output.phase,
   status |-> output.status,
   approachCount |-> output.approachCount,
   evaluationCount |-> output.evaluationCount,
   validNextPhases |-> output.validNextPhases,
   message |-> output.message,
   plan |-> output.plan,
   isError |-> output.status = "error"]

Failed(error) == [error |-> error, status |-> "failed", isError |-> TRUE]

Dispatch(s, input, t) ==
  IF input.phase = "init" THEN handleInit(s, input, t)
  ELSE IF s # NULL THEN
    CASE input.phase = "clarify" -> handleClarify(s, input, t)
      [] input.phase = "explore" -> handleExplore(s, input, t)
      [] input.phase = "evaluate" -> handleEvaluate(s, input, t)
      [] input.phase = "finalize" -> handleFinalize(s, input, t)
      [] OTHER -> Return(s, makeOutput(s, "error",
                           Msg("UnhandledPhase", input.phase, "", 0, 0, <<>>), NoPlan))
  ELSE Return(s, makeOutput(s, "error", Msg("NoActiveSession", "", "", 0, 0, <<>>), NoPlan))

\* The try block's normal exit and its catch clause.
Finish(h) ==
  IF h.thrown # NoMsg
    THEN [session |-> h.session, result |-> Failed(h.thrown)]
    ELSE [session |-> h.session, result |-> Structured(h.output)]

\* Rejected(s, transitionError): the early return of a rejected transition.
RejectTransition(s, transitionError) ==
  [session |-> s, result |-> Structured(makeOutput(s, "error", transitionError, NoPlan))]

\* [session |-> this.session afterwards, result |-> the value returned]
processPlanningStep(s, input, t) ==
  IF validateTransition(s, input.phase) # NoMsg
    THEN RejectTransition(s, validateTransition(s, input.phase))
    ELSE Finish(Dispatch(s, input, t))

\* ------------------------------------------------------------ persistence
SessionIds == {NewSessionId(t) : t \in Instants}

OptionalKeys == {"context", "selectedApproach", "answer"}

\* JSON.stringify leaves out the properties whose value is undefined
StripUndefined(obj) ==
  [k \in {x \in DOMAIN obj : ~(x \in OptionalKeys /\ obj[x] = undefined)} |-> obj[k]]

JSON_stringify_session(s) ==
  StripUndefined([s EXCEPT !.clarifications = SeqMap(StripUndefined, @)])

\* Reading a property the parsed object lacks gives undefined.
WithUndefined(obj, keys) ==
  [k \in DOMAIN obj \cup keys |-> IF k \in DOMAIN obj THEN obj[k] ELSE undefined]

JSON_parse_session(text) ==
  LET o == WithUndefined(text, {"context", "selectedApproach"}) IN
  [o EXCEPT !.clarifications = SeqMap(LAMBDA c : WithUndefined(c, {"answer"}), @)]

\* The line appendEvent builds: JSON.stringify of {timestamp, phase, session}
EventLine(s, t) ==
  [timestamp |-> t, phase |-> s.phase, session |-> JSON_stringify_session(s)]

\* Faulty variant: the file is rewritten with the new line alone.
appendFile_Overwrites(files, id, line) == [files EXCEPT ![id] = <<line>>]

\* fs.appendFile(path, line)
appendFile(files, id, line) == [files EXCEPT ![id] = Append(@, line)]

\* PersistenceManager.appendEvent run to completion: one line appended to
\* {sessionId}.jsonl
appendEvent(files, s, t) == appendFile(files, s.sessionId, EventLine(s, t))

FileExists(files, id) == id \in DOMAIN files /\ files[id] # <<>>

\* the latest snapshot of a session's event log: every line is replayed and
\* the last one kept
loadSession(files, id) ==
  JSON_parse_session(files[id][Len(files[id])].session)

\* ------------------------------------------------- the orchestrated call
\* Session resumption: which session the call operates on.
\* Faulty variant: an id that names no session falls back to the session in
\* memory.
resolveSession_FallsBack(s, files, input) ==
  IF input.phase = "init" \/ input.sessionId = undefined
    THEN [found |-> TRUE, session |-> s]
  ELSE IF s # NULL /\ s.sessionId = input.sessionId
    THEN [found |-> TRUE, session |-> s]
  ELSE IF FileExists(files, input.sessionId)
    THEN [found |-> TRUE, session |-> loadSession(files, input.sessionId)]
  ELSE [found |-> s # NULL, session |-> s]

\* Faulty variant: a supplied id is always loaded from its event log, also
\* when it is the id of the session in memory.
resolveSession_AlwaysLoads(s, files, input) ==
  IF input.phase = "init" \/ input.sessionId = undefined
    THEN [found |-> TRUE, session |-> s]
  ELSE IF FileExists(files, input.sessionId)
    THEN [found |-> TRUE, session |-> loadSession(files, input.sessionId)]
  ELSE IF s # NULL /\ s.sessionId = input.sessionId
    THEN [found |-> TRUE, session |-> s]
  ELSE [found |-> FALSE, session |-> s]

resolveSession(s, files, input) ==
  IF input.phase = "init" \/ input.sessionId = undefined
    THEN [found |-> TRUE, session |-> s]
  ELSE IF s # NULL /\ s.sessionId = input.sessionId
    THEN [found |-> TRUE, session |-> s]
  ELSE IF FileExists(files, input.sessionId)
    THEN [found |-> TRUE, session |-> loadSession(files, input.sessionId)]
  ELSE [found |-> FALSE, session |-> s]

Succeeded(r) == r.status \in {"ok", "complete"}

\* The event-log append that follows a call that succeeded.
Persist(files, step, t) ==
  [session |-> step.session,
   logs |-> IF Succeeded(step.result) THEN appendEvent(files, step.session, t) ELSE files,
   result |-> step.result]

NotFound(s, files, input) ==
  [session |-> s,
   logs |-> files,
   result |-> Structured(makeOutput(s, "error",
                Msg("SessionNotFound", input.sessionId, "", 0, 0, <<>>), NoPlan))]

\* The whole call: resumption, the state machine, then the event-log append.
PlanningCall(s, files, input, t) ==
  IF ~resolveSession(s, files, input).found
    THEN NotFound(s, files, input)
    ELSE Persist(files, processPlanningStep(resolveSession(s, files, input).session, input, t), t)

\* ----------------------------------------------------------------- inputs
EmptyInput ==
  [phase |-> "", sessionId |-> undefined,
   problem |-> undefined, context |-> undefined, constraints |-> undefined,
   question |-> undefined, answer |-> undefined,
   branchId |-> undefined, name |-> undefined, description |-> undefined,
   pros |-> undefined, cons |-> undefined,
   feasibility |-> NoNumber, completeness |-> NoNumber, coherence |-> NoNumber,
   risk |-> NoNumber, rationale |-> undefined, recommendation |-> undefined,
   selectedBranch |-> undefined, steps |-> undefined, risks |-> undefined,
   assumptions |-> undefined, successCriteria |-> undefined, format |-> undefined]

\* Session ids a caller may supply besides none.
OtherIds == {"dp-nonexistent"} \cup SessionIds

Scored == [feasibility |-> 9, completeness |-> 8, coherence |-> 8, risk |-> 3]
Unscored ==
  [feasibility |-> NoNumber, completeness |-> NoNumber, coherence |-> NoNumber,
   risk |-> NoNumber]
\* Some scores given, at the ends of the scale, and one left out.
PartlyScored == [feasibility |-> 0, completeness |-> NoNumber, coherence |-> 10, risk |-> 0]

InitInput(p, c) == [EmptyInput EXCEPT !.phase = "init", !.problem = p, !.constraints = c]

ClarifyInput(q, a) == [EmptyInput EXCEPT !.phase = "clarify", !.question = q, !.answer = a]

ExploreInput(b, n, p, c) ==
  [EmptyInput EXCEPT !.phase = "explore", !.branchId = b, !.name = n, !.pros = p,
                     !.cons = c]

EvaluateInput(b, sc, r) ==
  [EmptyInput EXCEPT !.phase = "evaluate", !.branchId = b,
                     !.feasibility = sc.feasibility, !.completeness = sc.completeness,
                     !.coherence = sc.coherence, !.risk = sc.risk,
                     !.recommendation = r]

FinalizeInput(b, st, rk, a, sc, f) ==
  [EmptyInput EXCEPT !.phase = "finalize", !.selectedBranch = b, !.steps = st,
                     !.risks = rk, !.assumptions = a, !.successCriteria = sc,
                     !.format = f]

\* Every payload is sent without a session id; the Core ones are also sent
\* with each id of OtherIds.
WithIds(core, rest) ==
  core \cup rest \cup {[i EXCEPT !.sessionId = id] : i \in core, id \in OtherIds}

InitInputs ==
  WithIds({InitInput("Build cache", TxtStrings)},
          {InitInput(undefined, undefined),
           InitInput("Build cache", TxtBad),
           InitInput("Build cache", TxtString)})

ClarifyInputs ==
  WithIds({ClarifyInput("Q?", undefined)}, {ClarifyInput(undefined, undefined)})

ExploreInputs ==
  WithIds({ExploreInput("a", "Redis", TxtStrings, undefined)},
          {ExploreInput("b", "Memcached", undefined, TxtNumbers),
           ExploreInput(undefined, "N", undefined, undefined),
           ExploreInput("a", undefined, undefined, undefined),
           ExploreInput("a", "Redis", TxtBraces, undefined),
           ExploreInput("b", "Memcached", undefined, TxtString)})

EvaluateInputs ==
  WithIds({EvaluateInput("a", Scored, "pursue")},
          {EvaluateInput("b", Unscored, undefined),
           EvaluateInput("b", PartlyScored, "abandon"),
           EvaluateInput("zz", Unscored, undefined),
           EvaluateInput(undefined, Unscored, undefined),
           EvaluateInput("a", Unscored, "maybe")})

FinalizeInputs ==
  WithIds({FinalizeInput("a", TxtSteps, TxtRisks, TxtNumbers, TxtStrings, undefined)},
          {FinalizeInput("zz", undefined, undefined, undefined, undefined, undefined),
           FinalizeInput(undefined, undefined, undefined, undefined, undefined, undefined),
           FinalizeInput("b", TxtStepsNum, undefined, undefined, undefined, "json"),
           FinalizeInput("a", TxtBad, undefined, undefined, undefined, undefined),
           FinalizeInput("a", TxtSteps, TxtObject, undefined, undefined, undefined),
           FinalizeInput("a", TxtSteps, TxtRisks, TxtStrings, TxtBad, undefined)})

OtherInputs == {[EmptyInput EXCEPT !.phase = "invalid"]}

\* ---------------------------------------------------------------- actions
RECURSIVE SumLen(_, _)
SumLen(files, ids) ==
  IF ids = {} THEN 0
  ELSE LET id == CHOOSE x \in ids : TRUE
       IN Len(files[id]) + SumLen(files, ids \ {id})

TotalEvents == SumLen(logs, DOMAIN logs)

NoResult == [status |-> "", isError |-> FALSE]

\* No call is in progress: the last response has been delivered.
Idle == req = EmptyInput

\* One call of the tool, made when the clock reads `now`; it runs to
\* completion before the next one is taken.
Commit(out, input) ==
  /\ out.logs # logs => TotalEvents < MaxEvents
  /\ session' = out.session
  /\ logs' = out.logs
  /\ result' = out.result
  /\ req' = input
  /\ UNCHANGED <<now, pmvars>>

InitStep ==
  \E input \in InitInputs :
    /\ Idle
    /\ Commit(PlanningCall(session, logs, input, now), input)

ClarifyStep ==
  \E input \in ClarifyInputs :
    /\ Idle
    /\ Commit(PlanningCall(session, logs, input, now), input)

ExploreStep ==
  \E input \in ExploreInputs :
    /\ Idle
    /\ Commit(PlanningCall(session, logs, input, now), input)

EvaluateStep ==
  \E input \in EvaluateInputs :
    /\ Idle
    /\ Commit(PlanningCall(session, logs, input, now), input)

FinalizeStep ==
  \E input \in FinalizeInputs :
    /\ Idle
    /\ Commit(PlanningCall(session, logs, input, now), input)

OtherStep ==
  \E input \in OtherInputs :
    /\ Idle
    /\ Commit(PlanningCall(session, logs, input, now), input)


\* The response reaches the caller.
Deliver ==
  /\ ~Idle
  /\ req' = EmptyInput
  /\ result' = NoResult
  /\ UNCHANGED <<session, now, logs, pmvars>>

\* A millisecond passes between two calls.
Tick ==
  /\ Idle
  /\ now + 1 \in Instants
  /\ now' = now + 1
  /\ UNCHANGED <<session, logs, req, result, pmvars>>

Init ==
  /\ session = NULL
  /\ now = 0
  /\ logs = [id \in SessionIds |-> <<>>]
  /\ req = EmptyInput
  /\ result = NoResult
  /\ appends = <<>>
  /\ disk = [created |-> FALSE, writable |-> TRUE]
  /\ ifs = EmptyDisk
  /\ ops = <<>>
  /\ seen = NothingSeen

Next ==
  \/ InitStep
  \/ ClarifyStep
  \/ ExploreStep
  \/ EvaluateStep
  \/ FinalizeStep
  \/ OtherStep
  \/ Deliver
  \/ Tick

Spec == Init /\ [][Next]_vars

\* ------------------------------------------- appendEvent, step by step
\* PersistenceManager.appendEvent is an async function: the caller gets a
\* promise at once, the event is built and stringified only after
\* `await this.ensureDir()`, and the line reaches the file when appendFile
\* completes.  The caller holds the same session object and may go on to
\* its next call before any of that has happened.
MaxAppends == 3

\* An appendEvent call that has just been made with session object s.
\* atCall records the session as it was at that moment.
StartedAppend(s) ==
  [pc |-> "ensureDir", live |-> TRUE, object |-> NULL, atCall |-> s, line |-> NULL]

\* The session object an appendEvent call was given, as it is now: the
\* handlers change the active session object in place.
Referent(a, s) == IF a.live THEN s ELSE a.object

\* handleInit installs a new object; calls in flight keep the old one.
Detach(calls, s) ==
  [i \in DOMAIN calls |->
     IF calls[i].live THEN [calls[i] EXCEPT !.live = FALSE, !.object = s]
     ELSE calls[i]]

AppendInputs ==
  {InitInput("Build cache", TxtStrings),
   ClarifyInput("Q?", undefined),
   ExploreInput("a", "Redis", TxtStrings, undefined),
   EvaluateInput("a", Scored, "pursue"),
   FinalizeInput("a", TxtSteps, TxtRisks, TxtNumbers, TxtStrings, undefined)}

Installed(step, input) ==
  /\ Succeeded(step.result)
  /\ session' = step.session
  /\ appends' = Append(IF input.phase = "init" THEN Detach(appends, session)
                       ELSE appends,
                       StartedAppend(step.session))
  /\ UNCHANGED <<now, logs, req, result, disk, ifs, ops, seen>>

\* A successful call of the state machine, followed by appendEvent(session).
MutatingCall ==
  \E input \in AppendInputs :
    /\ Len(appends) < MaxAppends
    /\ Installed(processPlanningStep(session, input, now), input)

\* ensureDir has resolved: the event is built from the session object as it
\* is now and stringified.
Stringify ==
  \E i \in DOMAIN appends :
    /\ appends[i].pc = "ensureDir"
    /\ disk.created \/ disk.writable
    /\ appends' = [appends EXCEPT
                     ![i].pc = "appendFile",
                     ![i].line = EventLine(Referent(appends[i], session), now)]
    /\ disk' = [disk EXCEPT !.created = TRUE]
    /\ UNCHANGED <<session, now, logs, req, result, ifs, ops, seen>>

\* appendFile has completed.
WriteLine ==
  \E i \in DOMAIN appends :
    /\ appends[i].pc = "appendFile"
    /\ disk.writable
    /\ logs' = appendFile(logs, appends[i].line.session.sessionId, appends[i].line)
    /\ appends' = [appends EXCEPT ![i].pc = "done"]
    /\ UNCHANGED <<session, now, req, result, disk, ifs, ops, seen>>

\* mkdir or appendFile has rejected: the error is caught and logged.
AppendFails ==
  \E i \in DOMAIN appends :
    /\ ~disk.writable
    /\ \/ appends[i].pc = "ensureDir" /\ ~disk.created
       \/ appends[i].pc = "appendFile"
    /\ appends' = [appends EXCEPT ![i].pc = "failed"]
    /\ UNCHANGED <<session, now, logs, req, result, disk, ifs, ops, seen>>

DiskBecomesUnwritable ==
  /\ disk.writable
  /\ disk' = [disk EXCEPT !.writable = FALSE]
  /\ UNCHANGED <<session, now, logs, req, result, appends, ifs, ops, seen>>

AppendNext ==
  \/ MutatingCall
  \/ Stringify
  \/ WriteLine
  \/ AppendFails
  \/ DiskBecomesUnwritable
  \/ Tick

AppendSpec == Init /\ [][AppendNext]_vars

\* ------------------------------------------------------ the plans index
\* What JSON.parse can make of the index file: null, a number, an array, or
\* an object, kept as its [sessionId, entry] pairs in key order.
JNull == [t |-> "null"]
Obj(pairs) == [t |-> "object", pairs |-> pairs]
EmptyIndex == Obj(<<>>)

\* File content that is not JSON.
NotJson == [t |-> "garbage"]

\* A file as it is on disk: whole is FALSE while writeFile has truncated it
\* and not yet written all of `text`.
Whole(text) == [whole |-> TRUE, text |-> text]
Partial(text) == [whole |-> FALSE, text |-> text]

\* A problem statement, one character per element.
ProblemCache == <<"C", "a", "c", "h", "e">>
ProblemQueue == <<"Q", "u", "e", "u", "e">>

PlanIndexEntry(problem, createdAt, phase, finalizedAt, selectedBranch, jsonl, markdown) ==
  [problem |-> problem, createdAt |-> createdAt, finalizedAt |-> finalizedAt,
   selectedBranch |-> selectedBranch, phase |-> phase,
   filePaths |-> [jsonl |-> jsonl, markdown |-> markdown]]

Keys(pairs) == {pairs[i][1] : i \in DOMAIN pairs}

Lookup(pairs, id) == pairs[CHOOSE i \in DOMAIN pairs : pairs[i][1] = id][2]

\* A faulty variant: the object is replaced by one holding only the new key.
SetPair_DropsOthers(pairs, id, entry) == <<<<id, entry>>>>

\* obj[id] = entry on an object: an existing key keeps its place, a new one
\* goes last
SetPair(pairs, id, entry) ==
  IF id \in Keys(pairs)
    THEN [i \in DOMAIN pairs |-> IF pairs[i][1] = id THEN <<id, entry>> ELSE pairs[i]]
    ELSE Append(pairs, <<id, entry>>)

\* The index file is there and can be read.
IndexReadable(fsys) == fsys.dir # "unreadable" /\ fsys.index # 0

IndexFile(fsys) == fsys.inodes[fsys.index]

\* PersistenceManager.readIndex: the parsed content, or {} when readFile or
\* JSON.parse throws
readIndex(fsys) ==
  IF ~IndexReadable(fsys) THEN EmptyIndex
  ELSE IF ~IndexFile(fsys).whole \/ IndexFile(fsys).text = NotJson THEN EmptyIndex
  ELSE IndexFile(fsys).text

Returns(value) == [rejected |-> FALSE, value |-> value]
Rejects(error) == [rejected |-> TRUE, value |-> error]

\* index[sessionId] = entry, in strict mode: null and primitives throw; a
\* property set on an array is not an element of it
SetEntry(index, id, entry) ==
  CASE index.t = "object" -> Returns(Obj(SetPair(index.pairs, id, entry)))
    [] index.t = "array" -> Returns(index)
    [] OTHER -> Rejects("TypeError")

\* Object.entries(index)
ObjectEntries(index) ==
  CASE index.t = "object" -> Returns(index.pairs)
    [] index.t = "array" -> Returns([i \in DOMAIN index.items |-> <<i - 1, index.items[i]>>])
    [] index.t = "null" -> Rejects("TypeError")
    [] OTHER -> Returns(<<>>)

\* index[sessionId]: undefined (NULL here) unless the object has the key
GetEntry(index, id) ==
  CASE index.t = "null" -> Rejects("TypeError")
    [] index.t = "object" /\ id \in Keys(index.pairs) -> Returns(Lookup(index.pairs, id))
    [] OTHER -> Returns(NULL)

ToLowerCase(ch) ==
  CASE ch = "C" -> "c"
    [] ch = "Q" -> "q"
    [] ch = "A" -> "a"
    [] ch = "U" -> "u"
    [] OTHER -> ch

\* String.prototype.includes
Includes(text, part) ==
  \E k \in 0..(Len(text) - Len(part)) :
    \A j \in 1..Len(part) : text[k + j] = part[j]

NoFilters == [status |-> undefined, keyword |-> <<>>]

\* A faulty variant: the keyword is compared case-sensitively.
Matches_CaseSensitive(e, filters) ==
  /\ filters.status = "complete" => e.phase = "done"
  /\ filters.status = "in-progress" => e.phase # "done"
  /\ filters.keyword # <<>> => Includes(e.problem, filters.keyword)

\* the status and keyword filters of listPlans
Matches(e, filters) ==
  /\ filters.status = "complete" => e.phase = "done"
  /\ filters.status = "in-progress" => e.phase # "done"
  /\ filters.keyword # <<>>
       => Includes(SeqMap(ToLowerCase, e.problem), SeqMap(ToLowerCase, filters.keyword))

RECURSIVE SelectSeq2(_, _)
\* Array.prototype.filter with the listPlans filters
SelectSeq2(entries, filters) ==
  IF entries = <<>> THEN <<>>
  ELSE (IF Matches(Head(entries), filters) THEN <<Head(entries)>> ELSE <<>>)
         \o SelectSeq2(Tail(entries), filters)

\* where e goes in a list already sorted by createdAt descending: after
\* every element that is not older (the sort is stable)
InsertByCreatedAt(sorted, e) ==
  LET k == Cardinality({i \in DOMAIN sorted : sorted[i].createdAt >= e.createdAt})
  IN SubSeq(sorted, 1, k) \o <<e>> \o SubSeq(sorted, k + 1, Len(sorted))

RECURSIVE SortByCreatedAtDesc(_)
SortByCreatedAtDesc(entries) ==
  IF entries = <<>> THEN <<>>
  ELSE InsertByCreatedAt(SortByCreatedAtDesc(SubSeq(entries, 1, Len(entries) - 1)),
                         entries[Len(entries)])

\* {sessionId, ...entry}
Annotated(pair) ==
  [sessionId |-> pair[1], problem |-> pair[2].problem, createdAt |-> pair[2].createdAt,
   finalizedAt |-> pair[2].finalizedAt, selectedBranch |-> pair[2].selectedBranch,
   phase |-> pair[2].phase, filePaths |-> pair[2].filePaths]

\* PersistenceManager.listPlans
listPlans(fsys, filters) ==
  IF ObjectEntries(readIndex(fsys)).rejected THEN ObjectEntries(readIndex(fsys))
  ELSE Returns(SortByCreatedAtDesc(
         SelectSeq2(SeqMap(Annotated, ObjectEntries(readIndex(fsys)).value), filters)))

\* readFile of a plan file: its content, or a rejection when it is not there
\* or cannot be read
PlanFileReadable(fsys, name) == fsys.dir # "unreadable" /\ name \in DOMAIN fsys.plans

Found(content, format) == [found |-> TRUE, content |-> content, format |-> format]
NotFoundPlan(why, format) == [found |-> FALSE, content |-> why, format |-> format]

ReadPlanFile(fsys, name, format, asked) ==
  IF PlanFileReadable(fsys, name) THEN Found(fsys.plans[name], format)
  ELSE NotFoundPlan("Failed to read plan file", asked)

\* A faulty variant: Markdown is reported missing instead of falling back to
\* the event log.
ReadPlan_NoFallback(fsys, entry, format) ==
  IF format = "jsonl" THEN ReadPlanFile(fsys, entry.filePaths.jsonl, "jsonl", format)
  ELSE IF entry.filePaths.markdown # undefined
    THEN ReadPlanFile(fsys, entry.filePaths.markdown, "markdown", format)
  ELSE NotFoundPlan("Failed to read plan file", format)

\* the try block of getPlan
ReadPlan(fsys, entry, format) ==
  IF format = "jsonl" THEN ReadPlanFile(fsys, entry.filePaths.jsonl, "jsonl", format)
  ELSE IF entry.filePaths.markdown # undefined
    THEN ReadPlanFile(fsys, entry.filePaths.markdown, "markdown", format)
  ELSE ReadPlanFile(fsys, entry.filePaths.jsonl, "jsonl", format)

\* PersistenceManager.getPlan
getPlan(fsys, id, format) ==
  IF GetEntry(readIndex(fsys), id).rejected THEN GetEntry(readIndex(fsys), id)
  ELSE IF GetEntry(readIndex(fsys), id).value = NULL
    THEN Returns(NotFoundPlan("No plan found with sessionId", format))
  ELSE Returns(ReadPlan(fsys, GetEntry(readIndex(fsys), id).value, format))

\* --------------------------------------- the index file, step by step
MaxWrites == 2

JsonlName(id) == id \o ".jsonl"
MarkdownName(id) == "19700101-" \o id \o ".md"

\* The entry upserted when a session is created, and when it is finalized;
\* the fields that are null in the entry hold the absent values here.
CreatedEntry(id, problem, createdAt) ==
  PlanIndexEntry(problem, createdAt, "init", NoNumber, undefined, JsonlName(id), undefined)
FinalizedEntry(id, problem, createdAt) ==
  PlanIndexEntry(problem, createdAt, "done", 1, "a", JsonlName(id), MarkdownName(id))

Entries ==
  {<<"s1", CreatedEntry("s1", ProblemCache, 0)>>,
   <<"s1", FinalizedEntry("s1", ProblemCache, 0)>>,
   <<"s2", CreatedEntry("s2", ProblemQueue, 1)>>}

\* ------------------------------------------------------------ rebuildIndex
\* f.endsWith('.jsonl')
IsJsonl(name) == \E id \in {"s1", "s2"} \cup SessionIds : name = JsonlName(id)

RECURSIVE SetToSeq(_)
SetToSeq(S) ==
  IF S = {} THEN <<>>
  ELSE LET x == CHOOSE y \in S : TRUE IN <<x>> \o SetToSeq(S \ {x})

\* readdirSync(plansDir).filter(...): the event logs, in directory order
ReadDir(plans) == SetToSeq({n \in DOMAIN plans : IsJsonl(n)})

\* JSON.parse(line) gives an event whose session has the members read
IsEvent(line) == "session" \in DOMAIN line

\* The body of the inner try runs through: the first and the last line of
\* the file parse as events. An empty file has the one line '', which does
\* not parse.
Indexable(lines) ==
  /\ lines # <<>>
  /\ IsEvent(lines[1])
  /\ IsEvent(lines[Len(lines)])

\* Faulty variant: the current state is taken from the first line as well.
RebuiltEntry_FromFirstLine(plans, file) ==
  PlanIndexEntry(JSON_parse_session(plans[file][1].session).problem,
                 JSON_parse_session(plans[file][1].session).createdAt,
                 JSON_parse_session(plans[file][1].session).phase,
                 IF JSON_parse_session(plans[file][1].session).phase = "done"
                   THEN JSON_parse_session(plans[file][1].session).updatedAt
                   ELSE NoNumber,
                 JSON_parse_session(plans[file][1].session).selectedApproach,
                 file,
                 IF MarkdownName(JSON_parse_session(plans[file][1].session).sessionId)
                      \in DOMAIN plans
                   THEN MarkdownName(JSON_parse_session(plans[file][1].session).sessionId)
                   ELSE undefined)

\* The entry built from the first and the last event of a file; null is
\* written as the absent value.
RebuiltEntry(plans, file) ==
  LET first == JSON_parse_session(plans[file][1].session)
      last == JSON_parse_session(plans[file][Len(plans[file])].session)
  IN PlanIndexEntry(first.problem, first.createdAt, last.phase,
                    IF last.phase = "done" THEN last.updatedAt ELSE NoNumber,
                    last.selectedApproach,
                    file,
                    IF MarkdownName(first.sessionId) \in DOMAIN plans
                      THEN MarkdownName(first.sessionId) ELSE undefined)

RECURSIVE RebuildFrom_StopsAtCorrupted(_, _, _)
\* Faulty variant: the first corrupted file ends the scan.
RebuildFrom_StopsAtCorrupted(plans, files, pairs) ==
  IF files = <<>> \/ ~Indexable(plans[Head(files)]) THEN pairs
  ELSE RebuildFrom_StopsAtCorrupted(plans, Tail(files),
         SetPair(pairs,
                 JSON_parse_session(plans[Head(files)][1].session).sessionId,
                 RebuiltEntry(plans, Head(files))))

RECURSIVE RebuildFrom(_, _, _)
\* for (const file of files) { try { ... index[sessionId] = {...} } catch { skip } }
RebuildFrom(plans, files, pairs) ==
  IF files = <<>> THEN pairs
  ELSE RebuildFrom(plans, Tail(files),
         IF Indexable(plans[Head(files)])
           THEN SetPair(pairs,
                        JSON_parse_session(plans[Head(files)][1].session).sessionId,
                        RebuiltEntry(plans, Head(files)))
           ELSE pairs)

\* The index rebuildIndex computes: {} when the directory cannot be listed
Rebuilt(fsys) ==
  IF fsys.dir = "unreadable" THEN EmptyIndex
  ELSE Obj(RebuildFrom(fsys.plans, ReadDir(fsys.plans), <<>>))

\* ------------------------------------------------------- starting disks
\* Snapshots as the state machine appends them.
Snapshot(id, problem, t) ==
  [CreateSession(NULL, InitInput(problem, undefined), t).session EXCEPT !.sessionId = id]

Explored(s, t) == [s EXCEPT !.phase = "explore", !.updatedAt = t]

Sealed(s, branch, t) ==
  [s EXCEPT !.phase = "done", !.selectedApproach = branch, !.updatedAt = t]

\* What the index file may hold when the process starts: nothing, text that
\* is not JSON, JSON of another shape, or an index.
StartingIndexes ==
  {NotJson, JNull, JNum("5"), JArr(<<>>), EmptyIndex,
   Obj(<<<<"s1", CreatedEntry("s1", ProblemCache, 0)>>>>),
   Obj(<<<<"s2", FinalizedEntry("s2", ProblemQueue, 0)>>,
         <<"s1", FinalizedEntry("s1", ProblemCache, 0)>>>>)}

\* The plans directory at the start: empty; one log of a session in
\* progress; a finalized session with its Markdown file beside a file that
\* is not JSON; a log with a damaged line in the middle beside an empty one;
\* a log cut short in its last line.
LogS1 == <<EventLine(Snapshot("s1", ProblemCache, 0), 0)>>

LogS1Done ==
  <<EventLine(Snapshot("s1", ProblemCache, 0), 0),
    EventLine(Sealed(Snapshot("s1", ProblemCache, 0), "a", 1), 1)>>

LogS2Damaged ==
  <<EventLine(Snapshot("s2", ProblemQueue, 1), 1), NotJson,
    EventLine(Explored(Snapshot("s2", ProblemQueue, 1), 1), 1)>>

StartingPlans ==
  {<<>>,
   (JsonlName("s1") :> LogS1),
   (JsonlName("s1") :> LogS1Done) @@ (MarkdownName("s1") :> <<"# Plan">>)
     @@ (JsonlName("s2") :> <<NotJson>>),
   (JsonlName("s1") :> <<>>) @@ (JsonlName("s2") :> LogS2Damaged),
   (JsonlName("s1") :> <<EventLine(Snapshot("s1", ProblemCache, 0), 0), NotJson>>)
     @@ (JsonlName("s2") :> <<EventLine(Snapshot("s2", ProblemQueue, 1), 1)>>)}

\* Every plans directory is tried without an index and with each index that
\* is a map; an index file that holds something else is tried beside one
\* event log; a directory that cannot be written or cannot be read is tried
\* with a finalized session beside a corrupted file, with and without an
\* index.
FaultyDirPlans == {p \in StartingPlans : MarkdownName("s1") \in DOMAIN p}

StartingDisks ==
  {[EmptyDisk EXCEPT !.plans = p] : p \in StartingPlans}
  \cup {[dir |-> "ok", index |-> 1, tmp |-> 0, inodes |-> <<Whole(x)>>, plans |-> p] :
          x \in {y \in StartingIndexes : y.t = "object"}, p \in StartingPlans}
  \cup {[dir |-> "ok", index |-> 1, tmp |-> 0, inodes |-> <<Whole(x)>>,
         plans |-> (JsonlName("s1") :> LogS1)] :
          x \in {y \in StartingIndexes : y.t # "object"}}
  \cup {[EmptyDisk EXCEPT !.dir = d, !.plans = p] :
          d \in {"unwritable", "unreadable"}, p \in FaultyDirPlans}
  \cup {[dir |-> d, index |-> 1, tmp |-> 0,
         inodes |-> <<Whole(Obj(<<<<"s1", CreatedEntry("s1", ProblemCache, 0)>>>>))>>,
         plans |-> p] :
          d \in {"unwritable", "unreadable"}, p \in FaultyDirPlans}

Filters ==
  {NoFilters,
   [status |-> "complete", keyword |-> <<>>],
   [status |-> "in-progress", keyword |-> <<"c", "A">>],
   [status |-> undefined, keyword |-> <<"U", "E">>]}

\* writeIndex has resolved: a rebuildIndex call returns the index it built,
\* an updateIndex call returns nothing.
Resolved(op, last) ==
  IF op.kind = "rebuildIndex"
    THEN [op |-> "rebuildIndex", args |-> <<>>, out |-> Returns(op.index)]
    ELSE last

\* updateIndex(sessionId, entry) is called; it first awaits readIndex().
UpdateIndexCall ==
  \E e \in Entries :
    /\ Len(ops) < MaxWrites
    /\ ops' = Append(ops, [kind |-> "updateIndex", pc |-> "readIndex", id |-> e[1],
                           entry |-> e[2], index |-> JNull, fd |-> 0])
    /\ UNCHANGED <<session, now, logs, req, result, appends, disk, ifs, seen>>

\* readIndex has resolved: index[sessionId] = entry, then writeIndex(index)
\* is called; a TypeError of the assignment rejects the updateIndex promise.
IndexRead ==
  \E i \in DOMAIN ops :
    /\ ops[i].pc = "readIndex"
    /\ ops' = [ops EXCEPT
                 ![i].pc = IF SetEntry(readIndex(ifs), ops[i].id, ops[i].entry).rejected
                             THEN "rejected" ELSE "writeFile",
                 ![i].index = IF SetEntry(readIndex(ifs), ops[i].id, ops[i].entry).rejected
                                THEN JNull
                                ELSE SetEntry(readIndex(ifs), ops[i].id, ops[i].entry).value]
    /\ UNCHANGED <<session, now, logs, req, result, appends, disk, ifs, seen>>

\* writeFile(tmpPath, ...) opens the temporary file, creating it or
\* truncating the one that is there.
OpenTmp ==
  \E i \in DOMAIN ops :
    /\ ops[i].pc = "writeFile"
    /\ ifs.dir = "ok"
    /\ IF ifs.tmp # 0
         THEN /\ ifs' = [ifs EXCEPT !.inodes[ifs.tmp] = Partial(ops[i].index)]
              /\ ops' = [ops EXCEPT ![i].pc = "writing", ![i].fd = ifs.tmp]
         ELSE /\ ifs' = [ifs EXCEPT !.inodes = Append(@, Partial(ops[i].index)),
                                    !.tmp = Len(ifs.inodes) + 1]
              /\ ops' = [ops EXCEPT ![i].pc = "writing", ![i].fd = Len(ifs.inodes) + 1]
    /\ UNCHANGED <<session, now, logs, req, result, appends, disk, seen>>

\* writeFile has written all of its data to the file it opened.
FinishWrite ==
  \E i \in DOMAIN ops :
    /\ ops[i].pc = "writing"
    /\ ifs' = [ifs EXCEPT !.inodes[ops[i].fd] = Whole(ops[i].index)]
    /\ ops' = [ops EXCEPT ![i].pc = "rename"]
    /\ UNCHANGED <<session, now, logs, req, result, appends, disk, seen>>

\* rename(tmpPath, indexPath); with no temporary file left it rejects, which
\* writeIndex catches and logs.
RenameTmp ==
  \E i \in DOMAIN ops :
    /\ ops[i].pc = "rename"
    /\ ifs.dir = "ok"
    /\ IF ifs.tmp = 0
         THEN /\ ops' = [ops EXCEPT ![i].pc = "failed"]
              /\ UNCHANGED ifs
         ELSE /\ ifs' = [ifs EXCEPT !.index = ifs.tmp, !.tmp = 0]
              /\ ops' = [ops EXCEPT ![i].pc = "done"]
    /\ seen' = Resolved(ops[i], seen)
    /\ UNCHANGED <<session, now, logs, req, result, appends, disk>>

\* mkdir, writeFile or rename rejects: writeIndex catches and logs it.
WriteIndexFails ==
  \E i \in DOMAIN ops :
    /\ ops[i].pc \in {"writeFile", "rename"}
    /\ ifs.dir # "ok"
    /\ ops' = [ops EXCEPT ![i].pc = "failed"]
    /\ seen' = Resolved(ops[i], seen)
    /\ UNCHANGED <<session, now, logs, req, result, appends, disk, ifs>>

\* rebuildIndex is called: the directory is scanned synchronously and
\* writeIndex(index) is awaited; when the directory cannot be listed the call
\* returns {} at once.
RebuildIndexCall ==
  /\ Len(ops) < MaxWrites
  /\ IF ifs.dir = "unreadable"
       THEN /\ seen' = [op |-> "rebuildIndex", args |-> <<>>, out |-> Returns(Rebuilt(ifs))]
            /\ UNCHANGED ops
       ELSE /\ ops' = Append(ops, [kind |-> "rebuildIndex", pc |-> "writeFile",
                                   index |-> Rebuilt(ifs), fd |-> 0])
            /\ UNCHANGED seen
  /\ UNCHANGED <<session, now, logs, req, result, appends, disk, ifs>>

ReadIndexCall ==
  /\ seen' = [op |-> "readIndex", args |-> <<>>, out |-> Returns(readIndex(ifs))]
  /\ UNCHANGED <<session, now, logs, req, result, appends, disk, ifs, ops>>

ListPlansCall ==
  \E filters \in Filters :
    /\ seen' = [op |-> "listPlans", args |-> <<filters>>, out |-> listPlans(ifs, filters)]
    /\ UNCHANGED <<session, now, logs, req, result, appends, disk, ifs, ops>>

GetPlanCall ==
  \E id \in {"s1", "s2"}, format \in {"markdown", "jsonl"} :
    /\ seen' = [op |-> "getPlan", args |-> <<id, format>>, out |-> getPlan(ifs, id, format)]
    /\ UNCHANGED <<session, now, logs, req, result, appends, disk, ifs, ops>>

IndexInit ==
  /\ session = NULL
  /\ now = 0
  /\ logs = [id \in SessionIds |-> <<>>]
  /\ req = EmptyInput
  /\ result = NoResult
  /\ appends = <<>>
  /\ disk = [created |-> FALSE, writable |-> TRUE]
  /\ ifs \in StartingDisks
  /\ ops = <<>>
  /\ seen = NothingSeen

IndexNext ==
  \/ UpdateIndexCall
  \/ IndexRead
  \/ OpenTmp
  \/ FinishWrite
  \/ RenameTmp
  \/ WriteIndexFails
  \/ RebuildIndexCall
  \/ ReadIndexCall
  \/ ListPlansCall
  \/ GetPlanCall

IndexSpec == IndexInit /\ [][IndexNext]_vars

\* ------------------------------------------------- resolvePlansDirectory
HomeDir == "/home/u"
WorkingDir == "/cwd"

AbsolutePaths == {"/env/plans", "/proj", "/abs/plans", "/global/plans", HomeDir, WorkingDir}

\* path.resolve(from, to) for the paths of this model
PathResolve(from, to) ==
  IF to \in AbsolutePaths THEN to
  ELSE IF to = "" THEN (IF from \in AbsolutePaths THEN from ELSE WorkingDir \o "/" \o from)
  ELSE (IF from \in AbsolutePaths THEN from ELSE WorkingDir \o "/" \o from) \o "/" \o to

\* A settings file that is missing, unreadable or not JSON.
NoFile == [t |-> "missing"]

\* readJsonSafe: the parsed content, or null
readJsonSafe(file) == IF file = NoFile \/ file = NotJson THEN JNull ELSE file

\* settings?.plansDirectory
PlansDirectoryOf(settings) ==
  IF Nullish(settings) THEN JUndef ELSE Field(settings, "plansDirectory")

Resolution(dir, consulted) == [dir |-> dir, consulted |-> consulted]

\* Faulty variant: the global setting is looked at before the project's.
resolvePlansDirectory_GlobalFirst(envDir, projectRoot, projectFile, globalFile) ==
  IF ~Falsy(envDir) THEN Resolution(envDir, {})
  ELSE IF PlansDirectoryOf(readJsonSafe(globalFile)).t = "string"
    THEN Resolution(PlansDirectoryOf(readJsonSafe(globalFile)).s, {"global"})
  ELSE IF ~Falsy(projectRoot)
          /\ PlansDirectoryOf(readJsonSafe(projectFile)).t = "string"
    THEN Resolution(PathResolve(projectRoot, PlansDirectoryOf(readJsonSafe(projectFile)).s),
                    {"global", "project"})
  ELSE Resolution(HomeDir \o "/.claude/plans",
                  {"global"} \cup (IF Falsy(projectRoot) THEN {} ELSE {"project"}))

\* resolvePlansDirectory, with the settings files it has read
resolvePlansDirectory(envDir, projectRoot, projectFile, globalFile) ==
  IF ~Falsy(envDir) THEN Resolution(envDir, {})
  ELSE IF ~Falsy(projectRoot)
          /\ PlansDirectoryOf(readJsonSafe(projectFile)).t = "string"
    THEN Resolution(PathResolve(projectRoot, PlansDirectoryOf(readJsonSafe(projectFile)).s),
                    {"project"})
  ELSE IF PlansDirectoryOf(readJsonSafe(globalFile)).t = "string"
    THEN Resolution(PlansDirectoryOf(readJsonSafe(globalFile)).s,
                    {"global"} \cup (IF Falsy(projectRoot) THEN {} ELSE {"project"}))
  ELSE Resolution(HomeDir \o "/.claude/plans",
                  {"global"} \cup (IF Falsy(projectRoot) THEN {} ELSE {"project"}))

\* ----------------------------------------------- the functions, called
Scores == 0..10

EnvDirs == {undefined, "", "/env/plans"}
ProjectRoots == {undefined, "", "/proj", "proj"}

ProjectFiles ==
  {NoFile, NotJson, JNull, JNum("5"), JObj([theme |-> JStr("dark")]),
   JObj([plansDirectory |-> JStr("plans")]),
   JObj([plansDirectory |-> JStr("/abs/plans")]),
   JObj([plansDirectory |-> JStr("")]),
   JObj([plansDirectory |-> JNum("5")]),
   JObj([plansDirectory |-> JNull])}

GlobalFiles ==
  {NoFile, NotJson, JNull, JObj([theme |-> JStr("dark")]),
   JObj([plansDirectory |-> JStr("/global/plans")]),
   JObj([plansDirectory |-> JStr("")]),
   JObj([plansDirectory |-> JNum("5")])}

TitleKeys == <<"title", "action", "name", "step">>
DescriptionKeys == <<"description", "detail", "details", "info">>

\* A member of a raw step: a string that tells which member it is, a
\* number, or null.
Member(k, kind) ==
  CASE kind = "string" -> JStr("the " \o k)
    [] kind = "number" -> JNum("5")
    [] OTHER -> JNull

\* The raw steps: every choice of present members among the title fields,
\* and among the description fields, each a string, a number or null.
RawStepsOver(keys) ==
  {JObj([k \in K |-> Member(k, kinds[k])]) :
     K \in SUBSET Range(keys), kinds \in [Range(keys) -> {"string", "number", "null"}]}

RawSteps == RawStepsOver(TitleKeys) \cup RawStepsOver(DescriptionKeys)

StepIndexes == 0..2

ScoreCall ==
  /\ seen = NothingSeen
  /\ \E f \in Scores, c \in Scores, h \in Scores, r \in Scores :
    /\ seen' = [op |-> "calculateWeightedScore", args |-> <<f, c, h, r>>,
                out |-> Returns(calculateWeightedScore(
                          [feasibility |-> f, completeness |-> c,
                           coherence |-> h, risk |-> r]))]
    /\ UNCHANGED <<session, now, logs, req, result, appends, disk, ifs, ops>>

NormalizeCall ==
  /\ seen = NothingSeen
  /\ \E raw \in RawSteps, i \in StepIndexes :
    /\ seen' = [op |-> "normalizePlanStep", args |-> <<raw, i>>,
                out |-> Returns(normalizePlanStep(raw, i))]
    /\ UNCHANGED <<session, now, logs, req, result, appends, disk, ifs, ops>>

ResolveCall ==
  /\ seen = NothingSeen
  /\ \E e \in EnvDirs, root \in ProjectRoots, pf \in ProjectFiles, gf \in GlobalFiles :
    /\ seen' = [op |-> "resolvePlansDirectory", args |-> <<e, root, pf, gf>>,
                out |-> Returns(resolvePlansDirectory(e, root, pf, gf))]
    /\ UNCHANGED <<session, now, logs, req, result, appends, disk, ifs, ops>>

\* The caller has its value.
ReturnToCaller ==
  /\ seen.op \in {"calculateWeightedScore", "normalizePlanStep", "resolvePlansDirectory"}
  /\ seen' = NothingSeen
  /\ UNCHANGED <<session, now, logs, req, result, appends, disk, ifs, ops>>

FunctionNext ==
  \/ ScoreCall
  \/ NormalizeCall
  \/ ResolveCall
  \/ ReturnToCaller

FunctionSpec == Init /\ [][FunctionNext]_vars

\* ------------------------------------------- a client completing a session
\* After any calls whatever, one client takes over the session in memory and
\* from then on makes every call: it asks for a phase the last state lists as
\* valid, finalize before evaluate before explore, with well-formed
\* arguments.  Its requests come on top of the MaxEvents lines of the calls
\* before.
ClientBranchIds == <<"a", "b", "c">>

\* A branchId no approach of the session has.
UnusedBranchId(s) ==
  ClientBranchIds[CHOOSE i \in DOMAIN ClientBranchIds :
                    /\ Find(s.approaches, ClientBranchIds[i]) = {}
                    /\ \A j \in 1..(i - 1) : Find(s.approaches, ClientBranchIds[j]) # {}]

\* The approaches that have no evaluation yet.
Unevaluated(s) ==
  {i \in DOMAIN s.approaches : Find(s.evaluations, s.approaches[i].branchId) = {}}

\* The branch the client evaluates: the first one without an evaluation, or
\* the first one when every approach has one.
BranchToEvaluate(s) ==
  IF s.approaches = <<>> THEN "a"
  ELSE IF Unevaluated(s) = {} THEN s.approaches[1].branchId
  ELSE s.approaches[CHOOSE i \in Unevaluated(s) : \A j \in Unevaluated(s) : i <= j].branchId

ClientRequest(s) ==
  IF "finalize" \in Range(getValidNextPhases(s))
    THEN FinalizeInput(IF s.approaches = <<>> THEN "a" ELSE s.approaches[1].branchId,
                       TxtSteps, TxtRisks, TxtStrings, TxtStrings, undefined)
  ELSE IF "evaluate" \in Range(getValidNextPhases(s))
    THEN EvaluateInput(BranchToEvaluate(s), Scored, "pursue")
  ELSE IF "explore" \in Range(getValidNextPhases(s))
    THEN ExploreInput(UnusedBranchId(s), "Plan C", undefined, undefined)
  ELSE InitInput("Build cache", undefined)

Completing == seen.op = "completing"

\* The client takes over a session that is not done; the phase it found is
\* noted.
TakeOver ==
  /\ Idle
  /\ seen = NothingSeen
  /\ session # NULL
  /\ session.phase # "done"
  /\ seen' = [op |-> "completing", args |-> <<session.phase>>,
              out |-> [rejected |-> FALSE, value |-> NULL]]
  /\ UNCHANGED <<session, now, logs, req, result, appends, disk, ifs, ops>>

\* It is the client's turn: its session is not done and its last request has
\* been answered.
ClientTurn == Completing /\ Idle /\ session.phase # "done"

\* The client's next request, made on the session in memory.
ClientStep ==
  /\ ClientTurn
  /\ session' = PlanningCall(session, logs, ClientRequest(session), now).session
  /\ logs' = PlanningCall(session, logs, ClientRequest(session), now).logs
  /\ result' = PlanningCall(session, logs, ClientRequest(session), now).result
  /\ req' = ClientRequest(session)
  /\ UNCHANGED <<now, pmvars>>

\* Calls of any kind, while no client has taken over.
AnyCall ==
  /\ seen = NothingSeen
  /\ InitStep \/ ClarifyStep \/ ExploreStep \/ EvaluateStep \/ FinalizeStep \/ OtherStep
       \/ Tick

LiveNext ==
  \/ AnyCall
  \/ Deliver
  \/ TakeOver
  \/ ClientStep

\* Every call is answered, and the client goes on making requests:
\* ClientStep is enabled exactly when it is the client's turn and is then the
\* only step there is, so weak fairness of ClientStep says that it is not the
\* client's turn for ever.
LiveSpec ==
  /\ Init
  /\ [][LiveNext]_vars
  /\ WF_vars(Deliver)
  /\ []<>(~ClientTurn)

\* ------------------------------------------------------------- properties
\* The transition table as the specification states it, with "" standing
\* for "no session yet".
TransitionTable(phase) ==
  CASE phase = "" -> <<"init">>
    [] phase = "init" -> <<"clarify", "explore">>
    [] phase = "clarify" -> <<"clarify", "explore">>
    [] phase = "explore" -> <<"explore", "evaluate", "clarify">>
    [] phase = "evaluate" -> <<"evaluate", "explore", "finalize">>
    [] phase = "done" -> <<"init">>
    [] OTHER -> <<>>

PhaseOf(s) == IF s = NULL THEN "" ELSE s.phase

\* A step in which a call is made: req' is its input, result' its response,
\* and the unprimed variables are the state the call found.
IsCall == req = EmptyInput /\ req' # EmptyInput

\* The session the call being made operates on.
Addressed == resolveSession(session, logs, req')

TransitionErrors == {"InvalidPhase", "NoActiveSession", "CannotTransition"}

IsTransitionError(r) ==
  /\ r.status = "error"
  /\ r.isError
  /\ r.message.kind \in TransitionErrors

\* C1: a non-init request whose phase is not listed, in the transition
\* table, for the current phase of the session it operates on is answered
\* with a transition error and leaves that session's phase as it was; so a
\* non-init request passes validation only if the table lists it.
C1_TransitionTableEnforced ==
  [][(IsCall /\ Addressed.found /\ req'.phase # "init"
        /\ req'.phase \notin Range(TransitionTable(PhaseOf(Addressed.session))))
       => /\ IsTransitionError(result')
          /\ PhaseOf(session') = PhaseOf(Addressed.session)
          /\ session' = Addressed.session]_vars

\* C1: a finalize request met a session in phase explore and was refused.
C1_Witness ==
  /\ req.phase = "finalize"
  /\ session # NULL
  /\ session.phase = "explore"
  /\ result.status = "error"
  /\ result.message.kind = "CannotTransition"

\* Constraints that are absent or hold a well-formed JSON array.
AbsentOrArray(text) ==
  Falsy(text) \/ (JSON_parse(text).ok /\ JSON_parse(text).value.t = "array")

\* The session a successful init creates.
IsFresh(s, input) ==
  /\ s # NULL
  /\ s.phase = "init"
  /\ s.problem = input.problem
  /\ s.clarifications = <<>>
  /\ s.approaches = <<>>
  /\ s.evaluations = <<>>
  /\ s.selectedApproach = undefined
  /\ s.steps = <<>>

C3_ValidNextPhases ==
  (req # EmptyInput /\ Succeeded(result))
    => /\ session # NULL
       /\ result.phase = session.phase
       /\ result.validNextPhases = TransitionTable(session.phase)
       /\ (req.phase = "finalize" => result.validNextPhases = <<"init">>)
       /\ (session.phase \in {"init", "clarify", "explore", "evaluate"}
             => "init" \notin Range(result.validNextPhases))

\* C3: a finalize has just completed and offers init alone.
C3_Witness ==
  /\ req.phase = "finalize"
  /\ result.status = "complete"
  /\ session.phase = "done"
  /\ result.validNextPhases = <<"init">>

\* C4: a call that fails (its response carries the error flag) leaves the
\* session it operated on exactly as it was, in every field, and appends
\* nothing to the event logs.
C4_FailedCallLeavesSession ==
  [][(IsCall /\ result'.isError)
       => /\ session' = Addressed.session
          /\ logs' = logs]_vars

ResultFields ==
  {"sessionId", "phase", "status", "approachCount", "evaluationCount",
   "validNextPhases", "message"}

\* A JSON-encoded field of the request that is present and malformed or not
\* an array.
BadPayload(input) ==
  \E text \in {input.constraints, input.pros, input.cons, input.steps,
               input.risks, input.assumptions, input.successCriteria} :
    ~AbsentOrArray(text)

\* C5: every response carries sessionId, phase, status, approachCount,
\* evaluationCount, validNextPhases and message, with status ok, error or
\* complete and the error flag set exactly on error; a request with a
\* malformed or non-array JSON field is never answered with anything but
\* status error.
C5_StructuredResult ==
  req # EmptyInput
    => /\ ResultFields \subseteq DOMAIN result
       /\ result.status \in {"ok", "error", "complete"}
       /\ result.isError <=> result.status = "error"
       /\ (BadPayload(req) => result.status = "error")

\* The clarifications, approaches and evaluations of snapshot `old` are all
\* in session s.
KeepsRecords(s, old) ==
  /\ Range(old.clarifications) \subseteq Range(s.clarifications)
  /\ Range(old.approaches) \subseteq Range(s.approaches)
  /\ Range(old.evaluations) \subseteq Range(s.evaluations)

\* C6: a non-init call carrying the id of a session created earlier
\* operates on that session as its last successful call left it: the
\* session it works on has that id, its phase and its clarifications,
\* approaches and evaluations are those of the last line of that id's event
\* log, and every record any earlier call stored under that id is present.
C6_ResumesAddressedSession ==
  [][(IsCall /\ req'.phase # "init" /\ req'.sessionId # undefined
        /\ FileExists(logs, req'.sessionId))
       => /\ Addressed.found
          /\ Addressed.session.sessionId = req'.sessionId
          /\ Addressed.session.phase = loadSession(logs, req'.sessionId).phase
          /\ KeepsRecords(Addressed.session, loadSession(logs, req'.sessionId))
          /\ KeepsRecords(loadSession(logs, req'.sessionId), Addressed.session)
          /\ \A i \in DOMAIN logs[req'.sessionId] :
               KeepsRecords(Addressed.session,
                            JSON_parse_session(logs[req'.sessionId][i].session))]_vars

DistinctBranchIds(list) ==
  \A i, j \in DOMAIN list : list[i].branchId = list[j].branchId => i = j

EvaluationsMatch(s) ==
  /\ DistinctBranchIds(s.evaluations)
  /\ \A i \in DOMAIN s.evaluations :
       Find(s.approaches, s.evaluations[i].branchId) # {}
  /\ Len(s.evaluations) <= Len(s.approaches)

\* C8: after every step each evaluation of the session names one of its
\* approaches, no two evaluations share a branchId and there are no more
\* evaluations than approaches; an evaluate request for a branch the
\* session does not have, or one it has already evaluated, fails and adds
\* no evaluation; and the counts every structured response reports obey
\* evaluationCount <= approachCount.
C8_EvaluationsReferenceApproaches ==
  [][/\ session' # NULL => EvaluationsMatch(session')
     /\ "evaluationCount" \in DOMAIN result'
          => result'.evaluationCount <= result'.approachCount
     /\ (IsCall /\ req'.phase = "evaluate" /\ Addressed.found
           /\ Addressed.session # NULL
           /\ \/ Find(Addressed.session.approaches, req'.branchId) = {}
              \/ Find(Addressed.session.evaluations, req'.branchId) # {})
          => /\ result'.isError
             /\ session' = Addressed.session]_vars

\* C8: an evaluate for a branch that already has an evaluation was refused
\* while another approach of the session has none.
C8_Witness ==
  /\ req.phase = "evaluate"
  /\ result.status = "error"
  /\ result.message.kind = "EvaluationAlreadyExists"
  /\ Len(session.evaluations) = 1
  /\ Len(session.approaches) = 2

\* C9: when the session a request operates on is in phase done, a clarify,
\* explore, evaluate or finalize request fails, the session stays as it is
\* in every field and nothing is appended to any event log; the only
\* request that succeeds is init, and it leaves a session in phase init.
C9_DoneIsTerminal ==
  [][(IsCall /\ Addressed.found /\ Addressed.session # NULL
        /\ Addressed.session.phase = "done")
       => /\ req'.phase \in {"clarify", "explore", "evaluate", "finalize"}
               => /\ result'.status = "error"
                  /\ result'.isError
                  /\ session' = Addressed.session
                  /\ logs' = logs
          /\ Succeeded(result')
               => /\ req'.phase = "init"
                  /\ session'.phase = "init"
                  /\ session'.approaches = <<>>]_vars

\* C9: an explore addressed to a finished session has just been refused.
C9_Witness ==
  /\ req.phase = "explore"
  /\ session # NULL
  /\ session.phase = "done"
  /\ result.status = "error"
  /\ result.message.kind = "CannotTransition"

\* C10: a successful evaluate works on a session that an explore has
\* already given an approach, a successful finalize on one an evaluate has
\* already given an evaluation; approaches are added only by successful
\* explore calls and evaluations only by successful evaluate calls; and
\* evaluate or finalize on a session still in phase init fails with the
\* transition error.
C10_PhaseOrder ==
  [][(IsCall /\ Addressed.found)
       => /\ (req'.phase = "evaluate" /\ Succeeded(result'))
               => /\ Addressed.session.phase \in {"explore", "evaluate"}
                  /\ Addressed.session.approaches # <<>>
          /\ (req'.phase = "finalize" /\ Succeeded(result'))
               => /\ Addressed.session.phase = "evaluate"
                  /\ Addressed.session.approaches # <<>>
                  /\ Addressed.session.evaluations # <<>>
          /\ (session' # NULL /\ session'.approaches # <<>>
                /\ (Addressed.session = NULL
                      \/ session'.approaches # Addressed.session.approaches))
               => req'.phase = "explore" /\ Succeeded(result')
          /\ (session' # NULL /\ session'.evaluations # <<>>
                /\ (Addressed.session = NULL
                      \/ session'.evaluations # Addressed.session.evaluations))
               => req'.phase = "evaluate" /\ Succeeded(result')
          /\ (Addressed.session # NULL /\ Addressed.session.phase = "init"
                /\ req'.phase \in {"evaluate", "finalize"})
               => /\ result'.status = "error"
                  /\ result'.message.kind = "CannotTransition"
                  /\ session' = Addressed.session]_vars

\* C10: a finalize sent straight after init has just been refused.
C10_Witness ==
  /\ req.phase = "finalize"
  /\ session # NULL
  /\ session.phase = "init"
  /\ result.status = "error"
  /\ result.message.kind = "CannotTransition"

\* The request's id names neither the session in memory nor an event log.
NamesNoSession(s, files, input) ==
  /\ input.sessionId # undefined
  /\ ~(s # NULL /\ s.sessionId = input.sessionId)
  /\ ~FileExists(files, input.sessionId)

\* C11: a non-init call whose session id names neither the session in
\* memory nor an event log is answered with the not-found error naming that
\* id, with status error and the error flag set; the session in memory and
\* every event log stay as they were, and the response reports that
\* session's id.
C11_UnknownSessionId ==
  [][(IsCall /\ req'.phase # "init"
        /\ NamesNoSession(session, logs, req'))
       => /\ result'.status = "error"
          /\ result'.isError
          /\ result'.message.kind = "SessionNotFound"
          /\ result'.message.a = req'.sessionId
          /\ result'.sessionId = (IF session = NULL THEN "" ELSE session.sessionId)
          /\ session' = session
          /\ logs' = logs]_vars

\* C11: an explore naming an unknown id was refused while a session with an
\* approach was active, and that session is still there.
C11_Witness ==
  /\ req.phase = "explore"
  /\ req.sessionId = "dp-nonexistent"
  /\ result.status = "error"
  /\ result.message.kind = "SessionNotFound"
  /\ session # NULL
  /\ Len(session.approaches) = 1

WithoutId(input) == [input EXCEPT !.sessionId = undefined]

NoLogs == [id \in SessionIds |-> <<>>]

\* C12: a non-init call that carries the id of the session in memory gives
\* the response, the session and the event logs that the same call without
\* an id gives, and its response and session are what they would be were
\* every event log empty (no log is read).
C12_MatchingIdIsAbsentId ==
  [][(IsCall /\ req'.phase # "init" /\ session # NULL
        /\ req'.sessionId = session.sessionId)
       => /\ result' = PlanningCall(session, logs, WithoutId(req'), now).result
          /\ session' = PlanningCall(session, logs, WithoutId(req'), now).session
          /\ logs' = PlanningCall(session, logs, WithoutId(req'), now).logs
          /\ result' = PlanningCall(session, NoLogs, req', now).result
          /\ session' = PlanningCall(session, NoLogs, req', now).session]_vars

\* C12: an explore carrying the active session's id has just added that
\* session's second approach.
C12_Witness ==
  /\ req.phase = "explore"
  /\ session # NULL
  /\ req.sessionId = session.sessionId
  /\ result.status = "ok"
  /\ Len(session.approaches) = 2

\* The id names a session created earlier.
NamesSession(s, files, id) ==
  (s # NULL /\ s.sessionId = id) \/ FileExists(files, id)

\* C13: an init call gives the response, session and event logs that the
\* same call without a session id gives; when it succeeds with a supplied
\* id that names an existing session, the session it creates is fresh, has
\* another id than the supplied one, and the event log of the supplied id
\* is left as it was.
C13_InitIgnoresSessionId ==
  [][(IsCall /\ req'.phase = "init")
       => /\ result' = PlanningCall(session, logs, WithoutId(req'), now).result
          /\ session' = PlanningCall(session, logs, WithoutId(req'), now).session
          /\ logs' = PlanningCall(session, logs, WithoutId(req'), now).logs
          /\ (Succeeded(result') /\ req'.sessionId # undefined
                /\ NamesSession(session, logs, req'.sessionId))
               => /\ IsFresh(session', req')
                  /\ session'.sessionId # req'.sessionId
                  /\ logs'[req'.sessionId] = logs[req'.sessionId]]_vars

\* C14: a successful init gives the new session an id that is not the id
\* of the session it replaces nor the id of any session created before
\* (each of which has left a line in the event log of its id).
C14_FreshSessionId ==
  [][(IsCall /\ req'.phase = "init" /\ Succeeded(result'))
       => /\ session # NULL => session'.sessionId # session.sessionId
          /\ ~FileExists(logs, session'.sessionId)]_vars

\* The optional JSON-encoded fields of a finalize request are each absent or
\* a well-formed JSON array.
WellFormedFinalize(input) ==
  /\ AbsentOrArray(input.steps)
  /\ AbsentOrArray(input.risks)
  /\ AbsentOrArray(input.assumptions)
  /\ AbsentOrArray(input.successCriteria)

\* C15: on a session in phase evaluate, a finalize request whose optional
\* fields are well formed succeeds exactly when selectedBranch is the
\* branchId of one of the session's approaches, evaluated or not; when it
\* succeeds the status is complete, the phase done, the response carries a
\* plan and selectedApproach is the selected branch.
C15_FinalizeNeedsExistingBranch ==
  [][(IsCall /\ Addressed.found /\ Addressed.session # NULL
        /\ Addressed.session.phase = "evaluate"
        /\ req'.phase = "finalize" /\ WellFormedFinalize(req'))
       => /\ Succeeded(result')
               <=> Find(Addressed.session.approaches, req'.selectedBranch) # {}
          /\ Succeeded(result')
               => /\ result'.status = "complete"
                  /\ ~result'.isError
                  /\ result'.phase = "done"
                  /\ session'.phase = "done"
                  /\ result'.plan # NoPlan
                  /\ session'.selectedApproach = req'.selectedBranch
          /\ ~Succeeded(result')
               => /\ result'.status = "error"
                  /\ session' = Addressed.session]_vars

\* C15: a finalize has just completed on a branch that was never evaluated.
C15_Witness ==
  /\ req.phase = "finalize"
  /\ result.status = "complete"
  /\ session.phase = "done"
  /\ session.selectedApproach = "b"
  /\ Find(session.evaluations, "b") = {}
  /\ Find(session.approaches, "b") # {}

\* C16: an init request without a problem, made while a session exists,
\* fails with status error and the error flag, reports that session's
\* sessionId, phase, approachCount and evaluationCount, and leaves it the
\* active session, unchanged, with nothing appended to any event log.
C16_FailedInitReportsOldSession ==
  [][(IsCall /\ req'.phase = "init" /\ Falsy(req'.problem) /\ session # NULL)
       => /\ result'.status = "error"
          /\ result'.isError
          /\ result'.message.kind = "InitRequiresProblem"
          /\ result'.sessionId = session.sessionId
          /\ result'.phase = session.phase
          /\ result'.approachCount = Len(session.approaches)
          /\ result'.evaluationCount = Len(session.evaluations)
          /\ session' = session
          /\ logs' = logs]_vars

\* C16: an init without a problem was refused while a session with an
\* approach and an evaluation was active, and the response reports them.
C16_Witness ==
  /\ req.phase = "init"
  /\ Falsy(req.problem)
  /\ result.status = "error"
  /\ session # NULL
  /\ result.sessionId = session.sessionId
  /\ result.approachCount = 1
  /\ result.evaluationCount = 1
  /\ result.phase = "evaluate"

\* C17: the line an appendEvent call adds to the event log decodes to the
\* session as it was when appendEvent was called, whether or not the
\* session has been changed by a later call in the meantime; and when a
\* single appendEvent has completed, the last line of the log decodes to
\* that session.
C17_RoundTrip ==
  /\ \A i \in DOMAIN appends :
       appends[i].pc \in {"appendFile", "done"}
         => JSON_parse_session(appends[i].line.session) = appends[i].atCall
  /\ (Len(appends) = 1 /\ appends[1].pc = "done")
       => loadSession(logs, appends[1].atCall.sessionId) = appends[1].atCall

\* C18: a step changes the event logs only by the completion of one
\* appendEvent call, which adds that call's line at the end of the file of
\* the line's sessionId; every line already in any log stays where it is
\* and the other logs are untouched.
C18_AppendOnly ==
  [][logs' # logs
       => \E i \in DOMAIN appends :
            /\ appends[i].pc = "appendFile"
            /\ appends'[i].pc = "done"
            /\ logs'[appends[i].line.session.sessionId]
                 = Append(logs[appends[i].line.session.sessionId], appends[i].line)
            /\ \A id \in DOMAIN logs \ {appends[i].line.session.sessionId} :
                 logs'[id] = logs[id]]_vars

\* C18: every appendEvent call has completed, leaving two lines in one log
\* and one in another.
C18_Witness ==
  /\ \E id \in DOMAIN logs : Len(logs[id]) = 2
  /\ \E id \in DOMAIN logs : Len(logs[id]) = 1
  /\ \A i \in DOMAIN appends : appends[i].pc = "done"

\* C19: no Persistence Manager operation rejects, whatever the plans
\* directory and the index file hold: no updateIndex call ends rejected, and
\* the last readIndex, listPlans or getPlan call returned a value.
C19_NeverRejects ==
  /\ \A i \in DOMAIN ops : ops[i].pc # "rejected"
  /\ ~seen.out.rejected

\* C20: whenever the index file exists, what a reader finds at its path is
\* the complete content of some write, never a partially written file.
C20_IndexNeverPartial ==
  ifs.index # 0 => IndexFile(ifs).whole

\* A step that is a call of the query operation op: it records its outcome
\* and leaves the disk and the pending index writes as they are.
IsQuery(op) == seen'.op = op /\ ifs' = ifs /\ ops' = ops

\* What the index file holds is a stored map of entries.
HoldsMap(fsys) ==
  /\ IndexReadable(fsys)
  /\ IndexFile(fsys).whole
  /\ IndexFile(fsys).text.t = "object"

\* C21: what readIndex returns is always a map from session id to entry: the
\* stored map when the index file holds one, the empty map when the file is
\* missing, unreadable, not JSON, or JSON of another shape.
C21_ReadIndexReturnsMap ==
  [][IsQuery("readIndex")
       => /\ ~seen'.out.rejected
          /\ seen'.out.value = IF HoldsMap(ifs) THEN IndexFile(ifs).text ELSE EmptyIndex]_vars

\* The index file is as the program leaves it or finds it after a failure:
\* missing, unreadable, cut short, not JSON, or a stored map of entries.
\* JSON of another shape, which the program never writes, is left to C19
\* and C21.
NoForeignJson(fsys) == readIndex(fsys).t = "object"

\* The step in which the updateIndex call i, the only one made so far,
\* completes with its write done.
CompletesAlone(i) ==
  /\ Len(ops) = 1
  /\ ops[i].kind = "updateIndex"
  /\ ops[i].pc = "rename"
  /\ ops'[i].pc = "done"

\* C22: when an updateIndex(sessionId, entry) call that ran alone completes
\* with its write done, readIndex maps sessionId to entry and every other
\* session id to what it mapped it to before the call.
C22_UpsertsOneKey ==
  [][\A i \in DOMAIN ops :
       (CompletesAlone(i) /\ NoForeignJson(ifs))
         => /\ GetEntry(readIndex(ifs'), ops[i].id) = Returns(ops[i].entry)
            /\ \A id \in {"s1", "s2"} \ {ops[i].id} :
                 GetEntry(readIndex(ifs'), id) = GetEntry(readIndex(ifs), id)]_vars

\* C22: one updateIndex call has completed over an index that had an entry
\* for another session, and the index now holds both.
C22_Witness ==
  /\ Len(ops) = 1
  /\ ops[1].kind = "updateIndex"
  /\ ops[1].pc = "done"
  /\ ops[1].id = "s2"
  /\ ifs.inodes[1] = Whole(Obj(<<<<"s1", CreatedEntry("s1", ProblemCache, 0)>>>>))
  /\ GetEntry(readIndex(ifs), "s1") = Returns(CreatedEntry("s1", ProblemCache, 0))
  /\ GetEntry(readIndex(ifs), "s2") = Returns(ops[1].entry)

\* The index has an entry for the session id.
HasEntry(fsys, id) == HoldsMap(fsys) /\ id \in Keys(IndexFile(fsys).text.pairs)

EntryOf(fsys, id) == Lookup(IndexFile(fsys).text.pairs, id)

\* A Markdown file was written for the session: its entry names one.
MarkdownWritten(fsys, id) == EntryOf(fsys, id).filePaths.markdown # undefined

\* What getPlan finds in the plan file of that name.
FileOrFailure(fsys, name, format, asked) ==
  IF PlanFileReadable(fsys, name)
    THEN [found |-> TRUE, format |-> format, content |-> fsys.plans[name]]
    ELSE [found |-> FALSE, format |-> asked, content |-> "Failed to read plan file"]

Satisfies(e, filters) ==
  /\ filters.status = "complete" => e.phase = "done"
  /\ filters.status = "in-progress" => e.phase # "done"
  /\ filters.keyword # <<>>
       => \E k \in 0..(Len(e.problem) - Len(filters.keyword)) :
            \A j \in 1..Len(filters.keyword) :
              ToLowerCase(e.problem[k + j]) = ToLowerCase(filters.keyword[j])

\* The listed item is the index entry of the pair, annotated with its id.
IsAnnotated(item, pair) ==
  /\ DOMAIN item = DOMAIN pair[2] \cup {"sessionId"}
  /\ item.sessionId = pair[1]
  /\ [f \in DOMAIN pair[2] |-> item[f]] = pair[2]

\* The list holds exactly the entries of the index that satisfy the filters,
\* each once, newest first.
ListsExactly(list, pairs, filters) ==
  /\ \A i \in DOMAIN list :
       \E j \in DOMAIN pairs :
         IsAnnotated(list[i], pairs[j]) /\ Satisfies(pairs[j][2], filters)
  /\ \A j \in DOMAIN pairs :
       Satisfies(pairs[j][2], filters)
         => \E i \in DOMAIN list : list[i].sessionId = pairs[j][1]
  /\ Len(list) = Cardinality({j \in DOMAIN pairs : Satisfies(pairs[j][2], filters)})
  /\ \A i, k \in DOMAIN list : i < k => list[i].createdAt >= list[k].createdAt

RebuildReturned == seen.op = "rebuildIndex" /\ ifs.dir # "unreadable"

LogFiles(fsys) == {n \in DOMAIN fsys.plans : IsJsonl(n)}

\* Every line of the file is an event; an empty file has none.
WellFormedFile(lines) == lines # <<>> /\ \A i \in DOMAIN lines : IsEvent(lines[i])

\* The first and the last line of the file are events.
EndsAreEvents(lines) == lines # <<>> /\ IsEvent(lines[1]) /\ IsEvent(lines[Len(lines)])

\* The index has an entry made from the file.
EntryFor(index, file) ==
  \E i \in DOMAIN index.pairs : index.pairs[i][2].filePaths.jsonl = file

FirstSnapshot(lines) == JSON_parse_session(lines[1].session)
LastSnapshot(lines) == JSON_parse_session(lines[Len(lines)].session)

\* The entry is the one the claim describes for the event log in the file.
EntryAsClaimed(e, fsys, file) ==
  /\ e.problem = FirstSnapshot(fsys.plans[file]).problem
  /\ e.createdAt = FirstSnapshot(fsys.plans[file]).createdAt
  /\ e.phase = LastSnapshot(fsys.plans[file]).phase
  /\ e.finalizedAt = IF LastSnapshot(fsys.plans[file]).phase = "done"
                       THEN LastSnapshot(fsys.plans[file]).updatedAt ELSE NoNumber
  /\ e.selectedBranch = LastSnapshot(fsys.plans[file]).selectedApproach
  /\ e.filePaths.jsonl = file
  /\ e.filePaths.markdown =
       IF MarkdownName(FirstSnapshot(fsys.plans[file]).sessionId) \in DOMAIN fsys.plans
         THEN MarkdownName(FirstSnapshot(fsys.plans[file]).sessionId) ELSE undefined

\* The map holds, for every indexable event log, the entry the claim
\* describes under the session's id, and nothing else.
RebuiltAsClaimed(index, fsys) ==
  /\ index.t = "object"
  /\ \A f \in LogFiles(fsys) :
       EndsAreEvents(fsys.plans[f])
         => /\ FirstSnapshot(fsys.plans[f]).sessionId \in Keys(index.pairs)
            /\ EntryAsClaimed(Lookup(index.pairs, FirstSnapshot(fsys.plans[f]).sessionId),
                              fsys, f)
  /\ \A i \in DOMAIN index.pairs :
       \E f \in LogFiles(fsys) :
         /\ EndsAreEvents(fsys.plans[f])
         /\ FirstSnapshot(fsys.plans[f]).sessionId = index.pairs[i][1]
  /\ \A i, j \in DOMAIN index.pairs : index.pairs[i][1] = index.pairs[j][1] => i = j

\* The step in which the rebuildIndex call i, the only index write in
\* progress, returns with its write done.
RebuildCompletesAlone(i) ==
  /\ \A j \in DOMAIN ops : j # i => ops[j].pc \in {"done", "failed", "rejected"}
  /\ ops[i].kind = "rebuildIndex"
  /\ ops[i].pc = "rename"
  /\ ops'[i].pc = "done"

\* C26: the map rebuildIndex returns is built from the event logs alone, with
\* each entry taken from the first and the last line of its log as the claim
\* says, and once it is written a following readIndex returns the same map.
C26_RebuildsFromScratch ==
  [][/\ (seen' # seen /\ seen'.op = "rebuildIndex" /\ ifs.dir # "unreadable")
          => (~seen'.out.rejected /\ RebuiltAsClaimed(seen'.out.value, ifs))
     /\ \A i \in DOMAIN ops :
          RebuildCompletesAlone(i)
            => (seen'.out.value = ops[i].index /\ readIndex(ifs') = ops[i].index)]_vars

\* C26: rebuildIndex has replaced an index of two entries by the one entry
\* that has an event log, finalized and with its Markdown file.
C26_Witness ==
  /\ Len(ops) = 1
  /\ ops[1].kind = "rebuildIndex"
  /\ ops[1].pc = "done"
  /\ seen.op = "rebuildIndex"
  /\ Len(ifs.inodes) = 2
  /\ ifs.inodes[1].text.t = "object"
  /\ Len(ifs.inodes[1].text.pairs) = 2
  /\ Keys(readIndex(ifs).pairs) = {"s1"}
  /\ Lookup(readIndex(ifs).pairs, "s1").phase = "done"
  /\ Lookup(readIndex(ifs).pairs, "s1").finalizedAt = 1
  /\ Lookup(readIndex(ifs).pairs, "s1").filePaths.markdown = MarkdownName("s1")

\* finalizedAt and selectedBranch are null unless the phase is done.
NullUntilDone(e) ==
  e.phase # "done" => (e.finalizedAt = NoNumber /\ e.selectedBranch = undefined)

\* C27: every index entry, upserted at init or finalize or rebuilt from an
\* event log the state machine has written, has finalizedAt and
\* selectedBranch null unless its phase is done.
C27_NullUntilDone ==
  /\ \A e \in Entries : NullUntilDone(e[2])
  /\ \A id \in DOMAIN logs :
       logs[id] # <<>>
         => NullUntilDone(RebuiltEntry((JsonlName(id) :> logs[id]), JsonlName(id)))

\* The settings file holds an object whose plansDirectory is a string.
SuppliesDirectory(file) ==
  /\ file.t = "object"
  /\ "plansDirectory" \in DOMAIN file.f
  /\ file.f.plansDirectory.t = "string"

Given(text) == text # undefined /\ text # ""

\* C28: the plans directory is the non-empty override if there is one, else
\* the project's string plansDirectory resolved against the project root,
\* else the global string plansDirectory, else the default under the home
\* directory; no settings file is read below the source that supplied the
\* value.
C28_ResolutionOrder ==
  seen.op = "resolvePlansDirectory"
    => IF Given(seen.args[1])
         THEN seen.out.value = [dir |-> seen.args[1], consulted |-> {}]
       ELSE IF Given(seen.args[2]) /\ SuppliesDirectory(seen.args[3])
         THEN /\ seen.out.value.dir
                   = PathResolve(seen.args[2], seen.args[3].f.plansDirectory.s)
              /\ "global" \notin seen.out.value.consulted
       ELSE IF SuppliesDirectory(seen.args[4])
         THEN seen.out.value.dir = seen.args[4].f.plansDirectory.s
       ELSE seen.out.value.dir = HomeDir \o "/.claude/plans"

\* C28: with no override, the project's relative plansDirectory was chosen
\* over a global one and the global settings were not read.
C28_Witness ==
  /\ seen.op = "resolvePlansDirectory"
  /\ seen.args[1] = ""
  /\ seen.args[2] = "/proj"
  /\ SuppliesDirectory(seen.args[3])
  /\ SuppliesDirectory(seen.args[4])
  /\ seen.out.value = [dir |-> "/proj/plans", consulted |-> {"project"}]

\* The score, in hundredths, of the four scores given in this order.
ScoreOf(f, c, h, r) ==
  calculateWeightedScore([feasibility |-> f, completeness |-> c, coherence |-> h, risk |-> r])

\* C29: for integer scores in 0..10 the weighted score, counted in
\* hundredths, is 30*feasibility + 25*completeness + 25*coherence
\* + 20*(10 - risk); it lies in 0..10, is 10 only for (10,10,10,0) and 0 only
\* for (0,0,0,10), does not decrease when feasibility, completeness or
\* coherence grows and decreases when risk grows.
C29_WeightedScore ==
  seen.op = "calculateWeightedScore"
    => /\ seen.out.value = 30 * seen.args[1] + 25 * seen.args[2] + 25 * seen.args[3]
                             + 20 * (10 - seen.args[4])
       /\ seen.out.value \in 0..1000
       /\ seen.out.value = 1000 <=> seen.args = <<10, 10, 10, 0>>
       /\ seen.out.value = 0 <=> seen.args = <<0, 0, 0, 10>>
       /\ seen.args[1] < 10
            => ScoreOf(seen.args[1] + 1, seen.args[2], seen.args[3], seen.args[4])
                 >= seen.out.value
       /\ seen.args[2] < 10
            => ScoreOf(seen.args[1], seen.args[2] + 1, seen.args[3], seen.args[4])
                 >= seen.out.value
       /\ seen.args[3] < 10
            => ScoreOf(seen.args[1], seen.args[2], seen.args[3] + 1, seen.args[4])
                 >= seen.out.value
       /\ seen.args[4] < 10
            => ScoreOf(seen.args[1], seen.args[2], seen.args[3], seen.args[4] + 1)
                 < seen.out.value

\* C29: the scores (8, 7, 9, 3) were given and 7.8 came back.
C29_Witness ==
  /\ seen.op = "calculateWeightedScore"
  /\ seen.args = <<8, 7, 9, 3>>
  /\ seen.out.value = 780

\* The member k of the raw step is a string.
IsStringMember(raw, k) == k \in DOMAIN raw.f /\ raw.f[k].t = "string"

\* The value of the first of the members named in keys that is a string, or
\* else the default.
FirstString(raw, keys, default) ==
  IF \E i \in DOMAIN keys : IsStringMember(raw, keys[i])
    THEN raw.f[keys[CHOOSE i \in DOMAIN keys :
                      /\ IsStringMember(raw, keys[i])
                      /\ \A j \in 1..(i - 1) : ~IsStringMember(raw, keys[j])]]
    ELSE JStr(default)

\* C30: normalizePlanStep sets title to the first of title, action, name,
\* step that is a string, or "Step {i+1}" when none is, and description to
\* the first of description, detail, details, info that is a string, or the
\* empty string when none is.
C30_FirstStringField ==
  seen.op = "normalizePlanStep"
    => /\ seen.out.value.title
            = FirstString(seen.args[1], TitleKeys, "Step " \o ToString(seen.args[2] + 1))
       /\ seen.out.value.description = FirstString(seen.args[1], DescriptionKeys, "")

\* The score stored for a score of the request.
StoredFor(x) == IF x = NoNumber THEN 5 ELSE x

\* The evaluation a successful evaluate request is to store.
EvaluationAsClaimed(e, input) ==
  /\ e.branchId = input.branchId
  /\ e.scores = [feasibility |-> StoredFor(input.feasibility),
                 completeness |-> StoredFor(input.completeness),
                 coherence |-> StoredFor(input.coherence),
                 risk |-> StoredFor(input.risk)]
  /\ e.recommendation
       = (IF input.recommendation = undefined THEN "refine" ELSE input.recommendation)
  /\ e.weightedScore = calculateWeightedScore(e.scores)
  /\ e.weightedScore = ScoreOf(e.scores.feasibility, e.scores.completeness,
                               e.scores.coherence, e.scores.risk)

\* C31: a successful evaluate adds one evaluation holding 5 for each score
\* left out and every given score as given (0 stays 0), the recommendation
\* given or refine when none is, and the weighted score of the stored
\* scores; an evaluate whose recommendation is given and is not pursue,
\* refine or abandon fails and adds no evaluation.
C31_EvaluateStoresScores ==
  [][(IsCall /\ Addressed.found /\ req'.phase = "evaluate")
       => /\ Succeeded(result')
            => /\ Len(session'.evaluations) = Len(Addressed.session.evaluations) + 1
               /\ EvaluationAsClaimed(session'.evaluations[Len(session'.evaluations)], req')
          /\ (req'.recommendation # undefined
                /\ req'.recommendation \notin {"pursue", "refine", "abandon"})
            => /\ result'.isError
               /\ session' = Addressed.session]_vars

\* C31: an evaluate giving feasibility 0, coherence 10 and risk 0 and no
\* completeness has succeeded: 0, 5, 10 and 0 are stored, scoring 5.75.
C31_Witness ==
  /\ req.phase = "evaluate"
  /\ req.feasibility = 0
  /\ req.completeness = NoNumber
  /\ result.status = "ok"
  /\ session.evaluations[Len(session.evaluations)].scores
       = [feasibility |-> 0, completeness |-> 5, coherence |-> 10, risk |-> 0]
  /\ session.evaluations[Len(session.evaluations)].weightedScore = 575

\* C31: an evaluate with the recommendation "maybe" has been refused.
C31_WitnessRefused ==
  /\ req.phase = "evaluate"
  /\ req.recommendation = "maybe"
  /\ result.message.kind = "InvalidRecommendation"

PlanUnset(s) ==
  /\ s.selectedApproach = undefined
  /\ s.steps = <<>>
  /\ s.risks = <<>>
  /\ s.assumptions = <<>>
  /\ s.successCriteria = <<>>

\* C33: while the phase of the session is not done, selectedApproach is
\* unset and steps, risks, assumptions and successCriteria are empty.
C33_PlanOnlyWhenDone ==
  (session # NULL /\ session.phase # "done") => PlanUnset(session)

\* The list a phase appends to.
OwnList(s, phase) ==
  CASE phase = "clarify" -> s.clarifications
    [] phase = "explore" -> s.approaches
    [] phase = "evaluate" -> s.evaluations

\* later is earlier with one record added at its end.
OneAppended(later, earlier) ==
  /\ Len(later) = Len(earlier) + 1
  /\ SubSeq(later, 1, Len(earlier)) = earlier

\* C34: a successful clarify, explore or evaluate adds exactly one record at
\* the end of its own list, leaves the other two lists and the earlier
\* records of its own as they were, and leaves sessionId, problem, context,
\* constraints and createdAt unchanged; updatedAt does not decrease.
C34_AppendsOneRecord ==
  [][(IsCall /\ Addressed.found /\ Succeeded(result')
        /\ req'.phase \in {"clarify", "explore", "evaluate"})
       => /\ OneAppended(OwnList(session', req'.phase),
                         OwnList(Addressed.session, req'.phase))
          /\ \A p \in {"clarify", "explore", "evaluate"} \ {req'.phase} :
               OwnList(session', p) = OwnList(Addressed.session, p)
          /\ session'.sessionId = Addressed.session.sessionId
          /\ session'.problem = Addressed.session.problem
          /\ session'.context = Addressed.session.context
          /\ session'.constraints = Addressed.session.constraints
          /\ session'.createdAt = Addressed.session.createdAt
          /\ session'.updatedAt >= Addressed.session.updatedAt]_vars

\* C34: a second clarification has just been recorded in a session that
\* already holds an approach.
C34_Witness ==
  /\ req.phase = "clarify"
  /\ result.status = "ok"
  /\ session # NULL
  /\ Len(session.clarifications) = 2
  /\ Len(session.approaches) >= 1

\* The entry upserted when a finalize has succeeded.
UpsertedAtFinalize(s) ==
  PlanIndexEntry(s.problem, s.createdAt, "done", s.updatedAt, s.selectedApproach,
                 JsonlName(s.sessionId), MarkdownName(s.sessionId))

\* The entry upserted by the call that has just succeeded.
Upserted(s, phase) ==
  IF phase = "init" THEN CreatedEntry(s.sessionId, s.problem, s.createdAt)
  ELSE UpsertedAtFinalize(s)

\* The plans directory once every write of the calls made so far has
\* completed: the event logs, and the Markdown plan of every id under which
\* a finalize has succeeded.
PlansWritten(files) ==
  [n \in {JsonlName(id) : id \in {i \in DOMAIN files : files[i] # <<>>}}
         \cup {MarkdownName(id) :
                 id \in {i \in DOMAIN files :
                           \E k \in DOMAIN files[i] : files[i][k].phase = "done"}}
     |-> IF \E id \in DOMAIN files : n = JsonlName(id)
           THEN files[CHOOSE id \in DOMAIN files : n = JsonlName(id)]
           ELSE <<"# Plan">>]

\* C35: once the writes of a successful init or finalize have completed, the
\* entry rebuildIndex derives from the session's event log equals the entry
\* upserted for the session at that call.
C35_RebuiltEqualsUpserted ==
  (req.phase \in {"init", "finalize"} /\ Succeeded(result))
    => RebuiltEntry(PlansWritten(logs), JsonlName(session.sessionId))
         = Upserted(session, req.phase)

\* Every appendEvent call made so far was given the session object that is
\* the active one, and has written its line.
AllWritten ==
  /\ appends # <<>>
  /\ \A i \in DOMAIN appends : appends[i].live /\ appends[i].pc = "done"

\* C36: when the appendEvent calls started for a session, none of them
\* awaited before the next, have all completed, the event log holds their
\* lines in the order the calls were started, and its last line is the
\* snapshot of the most recent call.
C36_LinesInCallOrder ==
  AllWritten
    => /\ Len(logs[session.sessionId]) = Len(appends)
       /\ \A k \in DOMAIN appends : logs[session.sessionId][k] = appends[k].line
       /\ logs[session.sessionId][Len(appends)].session
            = JSON_stringify_session(appends[Len(appends)].atCall)

\* Two updateIndex calls for different session ids have both completed
\* their writes, and the index file holds a complete map.
BothUpserted ==
  /\ Len(ops) = 2
  /\ \A i \in DOMAIN ops : ops[i].kind = "updateIndex" /\ ops[i].pc = "done"
  /\ ops[1].id # ops[2].id
  /\ HoldsMap(ifs)

\* C37: after two updateIndex calls for different session ids have both
\* completed, whether or not they overlapped, the index holds both entries.
C37_NoUpsertLost ==
  BothUpserted
    => \A i \in DOMAIN ops :
         /\ HasEntry(ifs, ops[i].id)
         /\ EntryOf(ifs, ops[i].id) = ops[i].entry

\* C38: the phase of the active session is one of init, clarify, explore,
\* evaluate and done, never finalize, and the valid next phases of the
\* state, as computed and as reported in a result, are never empty.
C38_PhaseAndNextPhases ==
  /\ session # NULL
       => session.phase \in {"init", "clarify", "explore", "evaluate", "done"}
  /\ getValidNextPhases(session) # <<>>
  /\ "validNextPhases" \in DOMAIN result
       => /\ result.validNextPhases # <<>>
          /\ result.phase \in {"", "init", "clarify", "explore", "evaluate", "done"}

\* C38: a finalize has just succeeded: the phase is done and the result
\* lists init as the one valid next phase.
C38_Witness ==
  /\ req.phase = "finalize"
  /\ result.status = "complete"
  /\ session.phase = "done"
  /\ result.validNextPhases = <<"init">>

\* C39: in phase explore the session has at least one approach; in phase
\* evaluate or done it has at least one approach and at least one
\* evaluation; in phase done selectedApproach is the branchId of one of its
\* approaches.
C39_PhaseImpliesRecords ==
  session # NULL
    => /\ session.phase = "explore" => Len(session.approaches) >= 1
       /\ session.phase \in {"evaluate", "done"}
            => Len(session.approaches) >= 1 /\ Len(session.evaluations) >= 1
       /\ session.phase = "done"
            => Find(session.approaches, session.selectedApproach) # {}

\* C39: a session with two approaches, one of them evaluated, has been
\* finalized with the evaluated one.
C39_Witness ==
  /\ session # NULL
  /\ session.phase = "done"
  /\ Len(session.approaches) = 2
  /\ Len(session.evaluations) = 1
  /\ session.selectedApproach = session.evaluations[1].branchId

\* C40: in phase explore some approach has no evaluation yet, and once a
\* client keeps asking for a valid next phase with well-formed arguments,
\* finalize before evaluate before explore, the session it took over gets
\* done.
C40_CanAlwaysComplete ==
  /\ []((session # NULL /\ session.phase = "explore") => Unevaluated(session) # {})
  /\ (Completing ~> (session # NULL /\ session.phase = "done"))

\* C40: a client that took over a session in phase clarify has had it
\* finalized.
C40_Witness ==
  /\ Completing
  /\ seen.args = <<"clarify">>
  /\ session.phase = "done"
  /\ req.phase = "finalize"

====
